---- MODULE Spec2Model ----
(***************************************************************************)
(* Batch reverse-geocoding orchestration of LatLongConvert                 *)
(* (src/main.py, src/utils.py, src/api_client.py).                          *)
(*                                                                         *)
(* Floats are modelled as whole degrees (the range checks only compare).   *)
(* An address text (a Python str) is the sequence of its words and commas: *)
(* "Delta State, Nigeria" is <<"Delta", "State", ",", "Nigeria">>.         *)
(* An Optional value is a sequence of at most one element: <<>> is None.   *)
(***************************************************************************)
EXTENDS Integers, Sequences, FiniteSets, TLC

(***************************************************************************)
(* Bounds of the model                                                     *)
(***************************************************************************)
\* longest table of the short family of input tables
MaxRows == 2
\* longest tail that follows the run of valid rows in a long input table
MaxTail == 3
\* over a long input table, the last FreeCalls calls below the cap may return any
\* result
FreeCalls == 1

\* the longest result list of a Google Maps response
MaxResults == 2

\* the most segments of a generated address
MaxSegments == 3

(***************************************************************************)
(* Cells of the input table                                                *)
(***************************************************************************)
\* None where the other values are strings (api_key, id_col)
None == "None"

\* a missing cell: None or NaN (pd.notnull is False for both)
Null == [kind |-> "null", val |-> 0, text |-> <<>>]
Num(n) == [kind |-> "num", val |-> n, text |-> <<>>]
\* a str cell, as its sequence of characters
Str(chars) == [kind |-> "str", val |-> 0, text |-> chars]

Digits == <<"0", "1", "2", "3", "4", "5", "6", "7", "8", "9">>

IsDigitChar(c) == \E d \in 1..10 : Digits[d] = c

DigitValue(c) == (CHOOSE d \in 1..10 : Digits[d] = c) - 1

RECURSIVE DigitsValue(_)
DigitsValue(chars) ==
    IF chars = <<>> THEN 0
    ELSE 10 * DigitsValue(SubSeq(chars, 1, Len(chars) - 1))
         + DigitValue(chars[Len(chars)])

AllDigits(chars) ==
    /\ chars # <<>>
    /\ \A i \in 1..Len(chars) : IsDigitChar(chars[i])

\* float(s) for a str of an optional sign and digits: <<ok, value>>;
\* ok = FALSE stands for the ValueError float() raises
ParseFloat(chars) ==
    IF AllDigits(chars) THEN <<TRUE, DigitsValue(chars)>>
    ELSE IF chars # <<>> /\ chars[1] = "-" /\ AllDigits(Tail(chars))
         THEN <<TRUE, 0 - DigitsValue(Tail(chars))>>
         ELSE <<FALSE, 0>>

\* pd.notnull(v)
NotNull(cell) == cell.kind # "null"

\* float(v) of a non-null cell: <<ok, value>>
ToFloat(cell) ==
    IF cell.kind = "num" THEN <<TRUE, cell.val>> ELSE ParseFloat(cell.text)

\* the cell values the input tables are built from
CellValues ==
    { Null, Num(6), Num(95), Num(200), Str(<<"a", "b", "c">>), Str(<<"4", "5">>) }

\* validate_coordinate_values with the bounds of the ranges excluded
validate_coordinate_values_exclusive(lat, lon) ==
    IF NotNull(lat) /\ ~ToFloat(lat)[1] THEN <<FALSE, "invalid_range">>
    ELSE IF NotNull(lon) /\ ~ToFloat(lon)[1] THEN <<FALSE, "invalid_range">>
    ELSE IF ~NotNull(lat) /\ ~NotNull(lon) THEN <<FALSE, "no_coordinates">>
    ELSE IF ~NotNull(lat) \/ ~NotNull(lon) THEN <<FALSE, "incomplete_coordinates">>
    ELSE IF ~(-90 < ToFloat(lat)[2] /\ ToFloat(lat)[2] < 90
              /\ -180 < ToFloat(lon)[2] /\ ToFloat(lon)[2] < 180)
         THEN <<FALSE, "invalid_range">>
    ELSE <<TRUE, "valid">>

\* validate_coordinate_values testing "one is missing" before "both are missing"
validate_coordinate_values_one_first(lat, lon) ==
    IF NotNull(lat) /\ ~ToFloat(lat)[1] THEN <<FALSE, "invalid_range">>
    ELSE IF NotNull(lon) /\ ~ToFloat(lon)[1] THEN <<FALSE, "invalid_range">>
    ELSE IF ~NotNull(lat) \/ ~NotNull(lon) THEN <<FALSE, "incomplete_coordinates">>
    ELSE IF ~(-90 <= ToFloat(lat)[2] /\ ToFloat(lat)[2] <= 90
              /\ -180 <= ToFloat(lon)[2] /\ ToFloat(lon)[2] <= 180)
         THEN <<FALSE, "invalid_range">>
    ELSE <<TRUE, "valid">>

\* validate_coordinate_values testing only the latitude for "one is missing":
\* the range test of a missing longitude raises TypeError
validate_coordinate_values_lat_only(lat, lon) ==
    IF NotNull(lat) /\ ~ToFloat(lat)[1] THEN <<FALSE, "invalid_range">>
    ELSE IF NotNull(lon) /\ ~ToFloat(lon)[1] THEN <<FALSE, "invalid_range">>
    ELSE IF ~NotNull(lat) /\ ~NotNull(lon) THEN <<FALSE, "no_coordinates">>
    ELSE IF ~NotNull(lat) THEN <<FALSE, "incomplete_coordinates">>
    ELSE IF ~NotNull(lon) THEN <<FALSE, "invalid_range">>
    ELSE IF ~(-90 <= ToFloat(lat)[2] /\ ToFloat(lat)[2] <= 90
              /\ -180 <= ToFloat(lon)[2] /\ ToFloat(lon)[2] <= 180)
         THEN <<FALSE, "invalid_range">>
    ELSE <<TRUE, "valid">>

(***************************************************************************)
(* utils.validate_coordinate_values                                        *)
(***************************************************************************)
validate_coordinate_values(lat, lon) ==
    IF NotNull(lat) /\ ~ToFloat(lat)[1]
    THEN <<FALSE, "invalid_range">>
    ELSE IF NotNull(lon) /\ ~ToFloat(lon)[1]
    THEN <<FALSE, "invalid_range">>
    ELSE IF ~NotNull(lat) /\ ~NotNull(lon)
    THEN <<FALSE, "no_coordinates">>
    ELSE IF ~NotNull(lat) \/ ~NotNull(lon)
    THEN <<FALSE, "incomplete_coordinates">>
    ELSE IF ~(/\ -90 <= ToFloat(lat)[2] /\ ToFloat(lat)[2] <= 90
              /\ -180 <= ToFloat(lon)[2] /\ ToFloat(lon)[2] <= 180)
    THEN <<FALSE, "invalid_range">>
    ELSE <<TRUE, "valid">>

(***************************************************************************)
(* Address texts                                                           *)
(***************************************************************************)
\* the words with an upper-case letter, each with its str.lower()
CaseMap ==
    << <<"Lagos-Calabar", "lagos-calabar">>, <<"Coastal", "coastal">>,
       <<"Highway", "highway">>, <<"LAGOS-CALABAR", "lagos-calabar">>,
       <<"COASTAL", "coastal">>, <<"HIGHWAY", "highway">>,
       <<"Dangote", "dangote">>,
       <<"Refinery", "refinery">>, <<"Ohoro", "ohoro">>,
       <<"Ughelli", "ughelli">>, <<"North", "north">>,
       <<"Delta", "delta">>, <<"DELTA", "delta">>,
       <<"State", "state">>, <<"STATE", "state">>,
       <<"Nigeria", "nigeria">>, <<"Lagos", "lagos">>,
       <<"Broad", "broad">>, <<"Street", "street">>,
       <<"Not", "not">>, <<"Available", "available">> >>

LowerWord(w) ==
    IF \E i \in 1..Len(CaseMap) : CaseMap[i][1] = w
    THEN CaseMap[CHOOSE i \in 1..Len(CaseMap) : CaseMap[i][1] = w][2]
    ELSE w

\* str.lower()
Lower(text) == [i \in 1..Len(text) |-> LowerWord(text[i])]

\* the words made of digits only
DigitWords == {"1", "333105", "100001"}

\* str.isdigit() of a stripped segment
IsDigit(part) == Len(part) = 1 /\ part[1] \in DigitWords

\* needle in text
Contains(text, needle) ==
    \E i \in 0..(Len(text) - Len(needle)) :
        SubSeq(text, i + 1, i + Len(needle)) = needle

\* [part.strip() for part in text.split(',')]
RECURSIVE Split(_)
Split(text) ==
    IF \A i \in 1..Len(text) : text[i] # ","
    THEN <<text>>
    ELSE LET k == CHOOSE i \in 1..Len(text) :
                      /\ text[i] = ","
                      /\ \A j \in 1..(i - 1) : text[j] # ","
         IN  <<SubSeq(text, 1, k - 1)>> \o Split(SubSeq(text, k + 1, Len(text)))

\* ", ".join(parts)
RECURSIVE Join(_)
Join(parts) ==
    IF parts = <<>> THEN <<>>
    ELSE IF Len(parts) = 1 THEN parts[1]
    ELSE parts[1] \o <<",">> \o Join(Tail(parts))

NotAvailable == <<"Not", "Available">>
EmptyText == <<>>

(***************************************************************************)
(* utils.adjust_state_for_known_locations                                  *)
(***************************************************************************)
HighwayPhrase == <<"lagos-calabar", "coastal", "highway">>
RefineryPhrase == <<"dangote", "refinery">>
DeltaState == <<"delta", "state">>
LagosStatePhrase == <<"lagos", "state">>
LagosState == <<"Lagos", "State">>

unwanted_locations == { <<"ohoro">>, <<"ughelli", "north">>, <<"ughelli">> }

Keywords == { <<"highway">>, <<"refinery">>, <<"state">>, <<"nigeria">> }

\* FilterParts without the test that drops the numeric parts
RECURSIVE FilterPartsKeepsPostcode(_)
FilterPartsKeepsPostcode(parts) ==
    IF parts = <<>> THEN <<>>
    ELSE LET part == Head(parts)
             part_lower == Lower(part)
             rest == FilterPartsKeepsPostcode(Tail(parts))
         IN  IF part_lower \in unwanted_locations THEN rest
             ELSE IF part_lower = DeltaState THEN <<LagosState>> \o rest
             ELSE IF IsDigit(part) THEN <<part>> \o rest
             ELSE IF \/ Contains(part_lower, HighwayPhrase)
                     \/ Contains(part_lower, RefineryPhrase)
                     \/ Contains(part_lower, LagosStatePhrase)
                     \/ Contains(part_lower, <<"nigeria">>)
                  THEN <<part>> \o rest
             ELSE IF \E keyword \in Keywords : Contains(part_lower, keyword)
                  THEN <<part>> \o rest
             ELSE rest

\* the first loop over the parts (utils.py:655-684)
RECURSIVE FilterParts(_)
FilterParts(parts) ==
    IF parts = <<>> THEN <<>>
    ELSE LET part == Head(parts)
             part_lower == Lower(part)
             rest == FilterParts(Tail(parts))
         IN  IF part_lower \in unwanted_locations THEN rest
             ELSE IF part_lower = DeltaState THEN <<LagosState>> \o rest
             ELSE IF IsDigit(part) THEN rest
             ELSE IF \/ Contains(part_lower, HighwayPhrase)
                     \/ Contains(part_lower, RefineryPhrase)
                     \/ Contains(part_lower, LagosStatePhrase)
                     \/ Contains(part_lower, <<"nigeria">>)
                  THEN <<part>> \o rest
             ELSE IF ~(\E keyword \in Keywords : Contains(part_lower, keyword))
                  THEN rest
             ELSE <<part>> \o rest

\* the second loop (utils.py:688-707); found is the four *_found flags
RECURSIVE OrderedParts(_, _)
OrderedParts(parts, found) ==
    IF parts = <<>> THEN <<>>
    ELSE LET part == Head(parts)
             part_lower == Lower(part)
         IN  IF Contains(part_lower, HighwayPhrase) /\ ~found.highway
             THEN <<part>> \o OrderedParts(Tail(parts), [found EXCEPT !.highway = TRUE])
             ELSE IF Contains(part_lower, RefineryPhrase) /\ ~found.refinery
             THEN <<part>> \o OrderedParts(Tail(parts), [found EXCEPT !.refinery = TRUE])
             ELSE IF Contains(part_lower, LagosStatePhrase) /\ ~found.state
             THEN <<part>> \o OrderedParts(Tail(parts), [found EXCEPT !.state = TRUE])
             ELSE IF Contains(part_lower, <<"nigeria">>) /\ ~found.country
             THEN <<part>> \o OrderedParts(Tail(parts), [found EXCEPT !.country = TRUE])
             ELSE OrderedParts(Tail(parts), found)

NothingFound ==
    [highway |-> FALSE, refinery |-> FALSE, state |-> FALSE, country |-> FALSE]

\* CorrectionMatches without the test of the state
CorrectionMatchesAddressOnly(full_address, state) ==
    /\ Contains(Lower(full_address), HighwayPhrase)
    /\ Contains(Lower(full_address), RefineryPhrase)

\* whether the correction rule matches (utils.py:638-642)
CorrectionMatches(full_address, state) ==
    /\ Contains(Lower(full_address), HighwayPhrase)
    /\ Contains(Lower(full_address), RefineryPhrase)
    /\ Lower(state) = DeltaState

\* adjust_state_for_known_locations returning the provider's state with the
\* rebuilt address
adjust_state_keeps_state(full_address, state) ==
    IF CorrectionMatches(full_address, state)
    THEN LET filtered_parts == FilterParts(Split(full_address))
             ordered == OrderedParts(filtered_parts, NothingFound)
             final_parts == IF Len(ordered) < 3 THEN filtered_parts ELSE ordered
         IN  <<state,
               IF final_parts # <<>> THEN Join(final_parts) ELSE full_address>>
    ELSE <<state, full_address>>

\* <<corrected_state, corrected_address>>
adjust_state_for_known_locations(full_address, state) ==
    IF CorrectionMatches(full_address, state)
    THEN LET filtered_parts == FilterParts(Split(full_address))
             ordered == OrderedParts(filtered_parts, NothingFound)
             final_parts == IF Len(ordered) < 3 THEN filtered_parts ELSE ordered
         IN  <<LagosState,
               IF final_parts # <<>> THEN Join(final_parts) ELSE full_address>>
    ELSE <<state, full_address>>

(***************************************************************************)
(* Address records a provider client returns                               *)
(***************************************************************************)
\* the record of the Lagos example: no correction applies
RecLagos ==
    [street1 |-> <<"1", "Broad", "Street">>, street2 |-> EmptyText,
     city |-> <<"Lagos">>, state |-> <<"Lagos", "State">>,
     postal |-> <<"100001">>, country |-> <<"Nigeria">>,
     address |-> <<"1", "Broad", "Street", ",", "Lagos", ",", "Nigeria">>]

\* the record the correction table is written for (utils.py:645)
RecDangote ==
    [street1 |-> <<"Lagos-Calabar", "Coastal", "Highway">>, street2 |-> <<"Ohoro">>,
     city |-> <<"Ughelli", "North">>, state |-> <<"Delta", "State">>,
     postal |-> <<"333105">>, country |-> <<"Nigeria">>,
     address |-> <<"Lagos-Calabar", "Coastal", "Highway", ",", "Dangote", "Refinery", ",",
                   "Ohoro", ",", "Ughelli", "North", ",", "Delta", "State", ",",
                   "333105", ",", "Nigeria">>]

AddressRecords == {RecLagos, RecDangote}

Fail == <<>>
Some(x) == <<x>>

\* what reverse_geocode can return: None or an address record
ProviderResults == {Fail} \cup {Some(r) : r \in AddressRecords}

(***************************************************************************)
(* utils: records and the processed-data buffer                            *)
(***************************************************************************)
AddressKeys ==
    {"Street1", "Street2", "City", "State", "Postal Code", "Country", "Full Address"}

RecordKeys == AddressKeys \cup {"Status"}

ProcessedColumns == {"Latitude", "Longitude"} \cup RecordKeys

PlaceholderRecord(status) ==
    [k \in RecordKeys |-> IF k = "Status" THEN status ELSE NotAvailable]

\* get_error_record with an empty Full Address
get_error_record_blank == [PlaceholderRecord("Error") EXCEPT !["Full Address"] = EmptyText]

get_error_record == PlaceholderRecord("Error")

\* error_messages with the key of the range error misspelt
error_messages_typo(error_type) ==
    IF error_type = "no_coordinates" THEN "No Coordinates Found"
    ELSE IF error_type = "incomplete_coordinates" THEN "Incomplete Coordinates"
    ELSE IF error_type = "invalid range" THEN "Invalid Coordinate Range"
    ELSE "Unknown Error"

error_messages(error_type) ==
    IF error_type = "no_coordinates" THEN "No Coordinates Found"
    ELSE IF error_type = "incomplete_coordinates" THEN "Incomplete Coordinates"
    ELSE IF error_type = "invalid_range" THEN "Invalid Coordinate Range"
    ELSE "Unknown Error"

get_coordinate_error_record(error_type) ==
    PlaceholderRecord(error_messages(error_type))

get_rate_limit_record == PlaceholderRecord("Rate Limit Reached (50/hour cap)")

initialize_processed_data == [c \in ProcessedColumns |-> <<>>]

\* AppendRecord without the append to the Status column
AppendRecordNoStatus(data, lat, lon, record) ==
    [c \in ProcessedColumns |->
        IF c = "Latitude" THEN Append(data[c], lat)
        ELSE IF c = "Longitude" THEN Append(data[c], lon)
        ELSE IF c = "Status" THEN data[c]
        ELSE Append(data[c], record[c])]

\* AppendRecord with the address fields inserted at the front of their columns
AppendRecordFront(data, lat, lon, record) ==
    [c \in ProcessedColumns |->
        IF c = "Latitude" THEN Append(data[c], lat)
        ELSE IF c = "Longitude" THEN Append(data[c], lon)
        ELSE <<record[c]>> \o data[c]]

\* the ten appends of one loop branch (main.py:505-514, 521-530, 563-572)
AppendRecord(data, lat, lon, record) ==
    [c \in ProcessedColumns |->
        IF c = "Latitude" THEN Append(data[c], lat)
        ELSE IF c = "Longitude" THEN Append(data[c], lon)
        ELSE Append(data[c], record[c])]

\* SuccessRecord with the provider's state and address left uncorrected
SuccessRecordRaw(res) ==
    [k \in RecordKeys |->
        IF k = "Street1" THEN res.street1
        ELSE IF k = "Street2" THEN res.street2
        ELSE IF k = "City" THEN res.city
        ELSE IF k = "State" THEN res.state
        ELSE IF k = "Postal Code" THEN res.postal
        ELSE IF k = "Country" THEN res.country
        ELSE IF k = "Full Address" THEN res.address
        ELSE "Success"]

\* the record the success branch appends (main.py:540-556)
SuccessRecord(res) ==
    LET corrected == adjust_state_for_known_locations(res.address, res.state)
    IN  [k \in RecordKeys |->
            IF k = "Street1" THEN res.street1
            ELSE IF k = "Street2" THEN res.street2
            ELSE IF k = "City" THEN res.city
            ELSE IF k = "State" THEN corrected[1]
            ELSE IF k = "Postal Code" THEN res.postal
            ELSE IF k = "Country" THEN res.country
            ELSE IF k = "Full Address" THEN corrected[2]
            ELSE "Success"]

(***************************************************************************)
(* utils.validate_coordinates and utils.prepare_output_dataframe           *)
(***************************************************************************)
\* df[[lat_col, lon_col]].notna().all(axis=1) of one row
BothNotNull(row) == NotNull(row.lat) /\ NotNull(row.lon)

\* validate_coordinates counting the rows whose two cells are numbers
validate_coordinates_numbers_only(table) ==
    Cardinality({i \in 1..Len(table) :
                    table[i].lat.kind = "num" /\ table[i].lon.kind = "num"})

\* validate_coordinates counting the rows with a non-null latitude
validate_coordinates_lat_only(table) ==
    Cardinality({i \in 1..Len(table) : NotNull(table[i].lat)})

\* the number of rows whose two coordinate cells are both non-null
validate_coordinates(table) ==
    Cardinality({i \in 1..Len(table) : BothNotNull(table[i])})

\* pd.to_numeric(value, errors='coerce')
ToNumeric(cell) ==
    IF ~NotNull(cell) THEN Null
    ELSE IF ToFloat(cell)[1] THEN Num(ToFloat(cell)[2]) ELSE Null

\* the columns of the report without the identifier
ResultColumns ==
    <<"Latitude", "Longitude", "Street1", "Street2", "City", "State",
      "Postal Code", "Country", "Full Address", "Geocoding Status">>

\* the keys of final_data in the order of their first assignment: the
\* identifier column, then the others (utils.py:464-480)
ReportColumns(idc) ==
    IF idc = None THEN ResultColumns
    ELSE <<idc>> \o SelectSeq(ResultColumns, LAMBDA c : c # idc)

\* the columns of final_data, each with the values of its last assignment
\* (utils.py:464-480)
FinalData(original_df, data, idc) ==
    [c \in {ReportColumns(idc)[i] : i \in 1..Len(ReportColumns(idc))} |->
        IF c = "Latitude"
        THEN [i \in 1..Len(original_df) |-> ToNumeric(original_df[i].lat)]
        ELSE IF c = "Longitude"
             THEN [i \in 1..Len(original_df) |-> ToNumeric(original_df[i].lon)]
        ELSE IF c = "Geocoding Status" THEN data["Status"]
        ELSE IF c \in AddressKeys THEN data[c]
        ELSE [i \in 1..Len(original_df) |-> original_df[i].id]]

\* pd.DataFrame(final_data) raises ValueError unless all columns are equally long
SameLength(final_data) ==
    \A c, d \in DOMAIN final_data : Len(final_data[c]) = Len(final_data[d])

\* Some(report), or None where pd.DataFrame raises
prepare_output_dataframe(original_df, data, idc) ==
    LET final_data == FinalData(original_df, data, idc)
    IN  IF SameLength(final_data)
        THEN Some([columns |-> ReportColumns(idc), data |-> final_data])
        ELSE <<>>

(***************************************************************************)
(* api_client                                                              *)
(***************************************************************************)
LocationIQ == "LocationIQ"
GoogleMaps == "Google Maps"
Nominatim == "OpenStreetMap (Nominatim)"

provider_options == <<LocationIQ, GoogleMaps, Nominatim>>

\* RATE_LIMIT of each client class, in tenths of a second
RATE_LIMIT(cls) ==
    IF cls = "LocationIQClient" THEN 9
    ELSE IF cls = "GoogleMapsClient" THEN 5
    ELSE 10

NoClient == [cls |-> None, api_key |-> None]

get_client(provider, key) ==
    IF provider = LocationIQ THEN [cls |-> "LocationIQClient", api_key |-> key]
    ELSE IF provider = GoogleMaps THEN [cls |-> "GoogleMapsClient", api_key |-> key]
    ELSE [cls |-> "NominatimClient", api_key |-> key]

(***************************************************************************)
(* api_client: responses and reverse_geocode                               *)
(***************************************************************************)
\* the keys the clients read in the 'address' object of a response
AddressFieldKeys ==
    {"house_number", "road", "quarter", "suburb", "city", "county", "state",
     "postcode", "country"}

\* a JSON object of texts: the keys present and their values
Dict(f) ==
    [is_object |-> TRUE, keys |-> DOMAIN f,
     val |-> [k \in AddressFieldKeys |-> IF k \in DOMAIN f THEN f[k] ELSE EmptyText]]

EmptyDict ==
    [is_object |-> TRUE, keys |-> {}, val |-> [k \in AddressFieldKeys |-> EmptyText]]

\* a value of the key 'address' that has no get(): null, a string, a list
NotAnObject == [EmptyDict EXCEPT !.is_object = FALSE]

\* d.get(k, '')
Get(d, k) == IF k \in d.keys THEN d.val[k] ELSE EmptyText

\* d.get(k, default)
GetOr(d, k, default) == IF k \in d.keys THEN d.val[k] ELSE default

\* f"{a} {b}".strip()
Spaced(a, b) == a \o b

\* the record LocationIQClient builds from the body (api_client.py:38-60)
LocationIQRecord(data) ==
    LET address == data.address
    IN  [street1 |-> Spaced(Get(address, "house_number"), Get(address, "road")),
         street2 |-> Spaced(Get(address, "quarter"), Get(address, "suburb")),
         city |-> Get(address, "city"),
         state |-> Get(address, "state"),
         postal |-> Get(address, "postcode"),
         country |-> Get(address, "country"),
         address |-> data.display_name]

\* NominatimRecord without the fallback to the county
NominatimRecordNoFallback(data) ==
    LET address_parts == data.address
    IN  [street1 |-> Get(address_parts, "road"),
         street2 |-> Get(address_parts, "suburb"),
         city |-> Get(address_parts, "city"),
         state |-> Get(address_parts, "state"),
         postal |-> Get(address_parts, "postcode"),
         country |-> Get(address_parts, "country"),
         address |-> data.display_name]

\* the record NominatimClient builds from the body (api_client.py:218-229)
NominatimRecord(data) ==
    LET address_parts == data.address
    IN  [street1 |-> Get(address_parts, "road"),
         street2 |-> Get(address_parts, "suburb"),
         city |-> GetOr(address_parts, "city", Get(address_parts, "county")),
         state |-> Get(address_parts, "state"),
         postal |-> Get(address_parts, "postcode"),
         country |-> Get(address_parts, "country"),
         address |-> data.display_name]

\* a result of a Google Maps response: the keys present and their values,
\* absent ones at the default of result.get
GoogleResult(keys, types, formatted_address, address_components) ==
    [keys |-> keys,
     types |-> IF "types" \in keys THEN types ELSE {},
     formatted_address |->
        IF "formatted_address" \in keys THEN formatted_address ELSE EmptyText,
     address_components |->
        IF "address_components" \in keys THEN address_components ELSE <<>>]

\* bool(result) of a dict
TruthyDict(d) == d.keys # {}

preferred_types ==
    <<"street_address", "premise", "subpremise", "route", "intersection",
      "political", "locality", "administrative_area_level_1",
      "administrative_area_level_2", "administrative_area_level_3",
      "administrative_area_level_4", "administrative_area_level_5">>

\* any(pref_type in result_types for pref_type in preferred_types)
HasPreferredType(result_types) ==
    \E i \in 1..Len(preferred_types) : preferred_types[i] \in result_types

\* the first loop (api_client.py:117-125): the first result that is not a
\* plus code and has a preferred type, as Some(result) or <<>> for None
FirstPreferred(results) ==
    LET hits == {i \in 1..Len(results) :
                    /\ "plus_code" \notin results[i].types
                    /\ HasPreferredType(results[i].types)}
    IN  IF hits = {} THEN <<>>
        ELSE Some(results[CHOOSE i \in hits : \A j \in hits : i <= j])

\* the second loop (api_client.py:129-133): the first result that is not a
\* plus code
FirstNonPlusCode(results) ==
    LET hits == {i \in 1..Len(results) : "plus_code" \notin results[i].types}
    IN  IF hits = {} THEN <<>>
        ELSE Some(results[CHOOSE i \in hits : \A j \in hits : i <= j])

\* 'not preferred_result' of None or a dict
NotResult(r) == r = <<>> \/ ~TruthyDict(r[1])

\* the candidate selection (api_client.py:97-138): the result chosen and
\* whether the fallback warning is logged
SelectResult(results) ==
    LET first == FirstPreferred(results)
        second == IF NotResult(first) THEN FirstNonPlusCode(results) ELSE first
    IN  IF NotResult(second)
        THEN [result |-> results[1], fallback |-> TRUE]
        ELSE [result |-> second[1], fallback |-> FALSE]

\* the last long_name of the components that reach the branch of the
\* elif chain for type t (api_client.py:150-165)
ComponentBranches ==
    <<"administrative_area_level_1", "locality", "postal_code", "country",
      "street_number", "route">>

BranchOf(types) ==
    IF \E i \in 1..Len(ComponentBranches) : ComponentBranches[i] \in types
    THEN ComponentBranches[CHOOSE i \in 1..Len(ComponentBranches) :
            /\ ComponentBranches[i] \in types
            /\ \A j \in 1..(i - 1) : ComponentBranches[j] \notin types]
    ELSE "none"

LastNamed(address_components, t) ==
    LET hits == {i \in 1..Len(address_components) :
                    BranchOf(address_components[i].types) = t}
    IN  IF hits = {} THEN EmptyText
        ELSE address_components[CHOOSE i \in hits : \A j \in hits : j <= i].long_name

\* the record GoogleMapsClient builds from the chosen result
\* (api_client.py:140-181)
GoogleRecord(preferred_result) ==
    LET address == preferred_result.formatted_address
        address_components == preferred_result.address_components
        street_number == LastNamed(address_components, "street_number")
        route == LastNamed(address_components, "route")
        joined == Spaced(street_number, route)
    IN  [street1 |-> IF joined = EmptyText /\ address # EmptyText
                     THEN Split(address)[1] ELSE joined,
         street2 |-> EmptyText,
         city |-> LastNamed(address_components, "locality"),
         state |-> LastNamed(address_components, "administrative_area_level_1"),
         postal |-> LastNamed(address_components, "postal_code"),
         country |-> LastNamed(address_components, "country"),
         address |-> address]

\* the exception classes of requests and of the parsing
RequestExceptions == {"Timeout", "ConnectionError", "JSONDecodeError"}
Exceptions == RequestExceptions \cup {"ValueError", "AttributeError"}

\* the try block of reverse_geocode: the exception raised or "none", the value
\* returned and the messages logged
Attempt(cls, resp) ==
    LET sent == <<"Sending request">>
        status == sent \o <<"Response Status">>
        Out(exc, ret, logs) == [exc |-> exc, ret |-> ret, logs |-> logs]
    IN  IF resp.kind = "timeout" THEN Out("Timeout", Fail, sent)
        ELSE IF resp.kind = "transport" THEN Out("ConnectionError", Fail, sent)
        ELSE IF resp.status # 200 THEN Out("none", Fail, status \o <<"Error: HTTP">>)
        ELSE IF resp.body.shape = "malformed"
             THEN Out(resp.body.decode_error, Fail, status)
        ELSE IF resp.body.shape = "non_object"
             THEN Out("AttributeError", Fail, status)
        ELSE IF cls = "GoogleMapsClient"
             THEN IF resp.body.results # <<>>
                  THEN LET chosen == SelectResult(resp.body.results)
                           received == status \o <<"Data received successfully">>
                       IN  Out("none", Some(GoogleRecord(chosen.result)),
                               IF chosen.fallback
                               THEN received \o
                                    <<"Only plus code available, using it as fallback">>
                               ELSE received)
                  ELSE Out("none", Fail, status \o <<"No results found">>)
        ELSE IF ~resp.body.address.is_object
             THEN Out("AttributeError", Fail, status \o <<"Data received successfully">>)
        ELSE IF cls = "LocationIQClient"
             THEN Out("none", Some(LocationIQRecord(resp.body)),
                      status \o <<"Data received successfully">>)
        ELSE Out("none", Some(NominatimRecord(resp.body)),
                 status \o <<"Data received successfully">>)

Outcome(ret, logs, raised) == [ret |-> ret, logs |-> logs, raised |-> raised]

\* reverse_geocode without the last handler, 'except Exception'
reverse_geocode_two_handlers(cls, resp) ==
    LET a == Attempt(cls, resp)
    IN  IF a.exc = "none" THEN Outcome(a.ret, a.logs, FALSE)
        ELSE IF a.exc = "Timeout"
             THEN Outcome(Fail, a.logs \o <<"Request timeout">>, FALSE)
        ELSE IF a.exc \in RequestExceptions
             THEN Outcome(Fail, a.logs \o <<"Request failed">>, FALSE)
        ELSE Outcome(Fail, a.logs, TRUE)

\* reverse_geocode: the try block and its three handlers
\* (api_client.py:24-71, 80-194, 203-240)
reverse_geocode(cls, resp) ==
    LET a == Attempt(cls, resp)
    IN  IF a.exc = "none" THEN Outcome(a.ret, a.logs, FALSE)
        ELSE IF a.exc = "Timeout"
             THEN Outcome(Fail, a.logs \o <<"Request timeout">>, FALSE)
        ELSE IF a.exc \in RequestExceptions
             THEN Outcome(Fail, a.logs \o <<"Request failed">>, FALSE)
        ELSE IF a.exc \in Exceptions
             THEN Outcome(Fail, a.logs \o <<"Exception">>, FALSE)
        ELSE Outcome(Fail, a.logs, TRUE)

\* the HTTP exchange of one call: a timeout, a transport failure, or a status
\* with a body
NoBody ==
    [shape |-> "none", decode_error |-> "none", address |-> EmptyDict,
     display_name |-> EmptyText, results |-> <<>>]

\* a body that response.json() rejects, with the class of its exception:
\* requests.exceptions.JSONDecodeError, or ValueError in older releases
Malformed(exc) == [NoBody EXCEPT !.shape = "malformed", !.decode_error = exc]

\* a JSON body that is not an object
NonObject == [NoBody EXCEPT !.shape = "non_object"]

ObjectBody(address, display_name, results) ==
    [shape |-> "object", decode_error |-> "none", address |-> address,
     display_name |-> display_name, results |-> results]

TimeoutResponse == [kind |-> "timeout", status |-> 0, body |-> NoBody]
TransportResponse == [kind |-> "transport", status |-> 0, body |-> NoBody]
Http(status, body) == [kind |-> "http", status |-> status, body |-> body]

Component(types, long_name) == [types |-> types, long_name |-> long_name]

\* the bodies of the Lagos example, as each provider words it
LagosComponents ==
    <<Component({"street_number"}, <<"1">>),
      Component({"route"}, <<"Broad", "Street">>),
      Component({"locality", "political"}, <<"Lagos">>),
      Component({"administrative_area_level_1", "political"}, <<"Lagos", "State">>),
      Component({"country", "political"}, <<"Nigeria">>),
      Component({"postal_code"}, <<"100001">>)>>

LagosResult ==
    GoogleResult({"types", "formatted_address", "address_components"},
                 {"street_address"}, RecLagos.address, LagosComponents)

LagosBody(cls) ==
    IF cls = "GoogleMapsClient" THEN ObjectBody(EmptyDict, EmptyText, <<LagosResult>>)
    ELSE IF cls = "LocationIQClient"
    THEN ObjectBody(Dict([house_number |-> <<"1">>, road |-> <<"Broad", "Street">>,
                          city |-> <<"Lagos">>, state |-> <<"Lagos", "State">>,
                          postcode |-> <<"100001">>, country |-> <<"Nigeria">>]),
                    RecLagos.address, <<>>)
    ELSE ObjectBody(Dict([road |-> <<"1", "Broad", "Street">>,
                          city |-> <<"Lagos">>, state |-> <<"Lagos", "State">>,
                          postcode |-> <<"100001">>, country |-> <<"Nigeria">>]),
                    RecLagos.address, <<>>)

\* the bodies of the address the correction table is written for
DangoteComponents ==
    <<Component({"route"}, <<"Lagos-Calabar", "Coastal", "Highway">>),
      Component({"locality", "political"}, <<"Ughelli", "North">>),
      Component({"administrative_area_level_1", "political"}, <<"Delta", "State">>),
      Component({"country", "political"}, <<"Nigeria">>),
      Component({"postal_code"}, <<"333105">>)>>

DangoteResult ==
    GoogleResult({"types", "formatted_address", "address_components"},
                 {"route"}, RecDangote.address, DangoteComponents)

DangoteDict ==
    Dict([road |-> <<"Lagos-Calabar", "Coastal", "Highway">>, suburb |-> <<"Ohoro">>,
          city |-> <<"Ughelli", "North">>, state |-> <<"Delta", "State">>,
          postcode |-> <<"333105">>, country |-> <<"Nigeria">>])

DangoteBody(cls) ==
    IF cls = "GoogleMapsClient" THEN ObjectBody(EmptyDict, EmptyText, <<DangoteResult>>)
    ELSE ObjectBody(DangoteDict, RecDangote.address, <<>>)

\* the results a Google Maps response is built from: plus codes, results of
\* preferred and of other types, a result without types and an empty object
PlusCodeResult ==
    GoogleResult({"types", "formatted_address"}, {"plus_code"},
                 <<"6FR5+XY", ",", "Lagos">>, <<>>)

PlusCodeRouteResult ==
    GoogleResult({"types", "formatted_address"}, {"plus_code", "route"},
                 <<"6FR5+XZ", ",", "Lagos">>, <<>>)

EstablishmentResult ==
    GoogleResult({"types", "formatted_address"}, {"establishment"},
                 <<"Dangote", "Refinery", ",", "Lagos">>, <<>>)

UntypedResult ==
    GoogleResult({"formatted_address"}, {}, <<"Lagos", ",", "Nigeria">>, <<>>)

EmptyResult == GoogleResult({}, {}, EmptyText, <<>>)

GoogleResults ==
    {PlusCodeResult, PlusCodeRouteResult, LagosResult, DangoteResult,
     EstablishmentResult, UntypedResult, EmptyResult}

ResultLists == UNION { [1..n -> GoogleResults] : n \in 0..MaxResults }

AddressDicts ==
    {EmptyDict, DangoteDict, LagosBody("LocationIQClient").address,
     Dict([county |-> <<"Ikeja">>, state |-> <<"Lagos", "State">>]),
     Dict([city |-> EmptyText, county |-> <<"Ikeja">>]),
     NotAnObject}

DisplayNames == {EmptyText, RecLagos.address, RecDangote.address}

Bodies ==
    {Malformed("JSONDecodeError"), Malformed("ValueError"), NonObject}
    \cup {ObjectBody(a, d, <<>>) : a \in AddressDicts, d \in DisplayNames}
    \cup {ObjectBody(EmptyDict, EmptyText, r) : r \in ResultLists}

ErrorStatuses == {404, 429, 500}

ErrorBodies == {Malformed("ValueError"), ObjectBody(EmptyDict, EmptyText, <<>>),
                LagosBody("GoogleMapsClient"), LagosBody("NominatimClient")}

\* every exchange a call is explored with
Responses ==
    {TimeoutResponse, TransportResponse}
    \cup {Http(200, b) : b \in Bodies}
    \cup {Http(st, b) : st \in ErrorStatuses, b \in ErrorBodies}

\* the exchanges a batch run is explored with: a timeout and the two addresses
RunResponses(cls) ==
    {TimeoutResponse, Http(200, LagosBody(cls)), Http(200, DangoteBody(cls))}

(***************************************************************************)
(* Input tables                                                            *)
(***************************************************************************)
\* the hourly cap of the free provider
MaxRequests == 50

RowKinds == CellValues \X CellValues

ValidKind == <<Num(6), Num(6)>>
OutOfRangeKind == <<Num(95), Num(6)>>

\* the rows a table may repeat; at most one row of a short table is of another kind
BasicKinds == {ValidKind, OutOfRangeKind}

\* the identifier of row i, a text
RowId(i) == <<ToString(i)>>

MakeTable(kinds) ==
    [i \in 1..Len(kinds) |->
        [id |-> RowId(i), lat |-> kinds[i][1], lon |-> kinds[i][2]]]

\* the identifier column selected: none, one of its own name, or one that
\* bears the name of a result column
IdColumns == {None, "ID", "State"}

\* the rows of a table in which no row has both coordinates
IncompleteKinds == {<<Null, Null>>, <<Null, Num(6)>>, <<Num(6), Null>>}

ShortTables ==
    UNION { { MakeTable(k) :
                k \in { s \in [1..n -> RowKinds] :
                          \/ Cardinality({i \in 1..n : s[i] \notin BasicKinds}) <= 1
                          \/ \A i \in 1..n : s[i] \in IncompleteKinds } } :
            n \in 1..MaxRows }

\* one-row tables whose coordinates lie at and next to the bounds of the ranges
BoundaryLats == {Num(-91), Num(-90), Num(6), Num(90), Num(91)}
BoundaryLons == {Num(-181), Num(-180), Num(6), Num(180), Num(181)}
BoundaryTables == { MakeTable(<<k>>) : k \in BoundaryLats \X BoundaryLons }

\* MaxRequests - 1 valid rows, then a tail of valid and out-of-range rows
LongTables ==
    UNION { { MakeTable([i \in 1..(MaxRequests - 1 + n) |->
                            IF i < MaxRequests THEN ValidKind
                            ELSE tail[i - (MaxRequests - 1)]]) :
                tail \in [1..n -> {ValidKind, OutOfRangeKind}] } :
            n \in 1..MaxTail }

IsLong(table) == Len(table) > MaxRows

(***************************************************************************)
(* State                                                                   *)
(***************************************************************************)
VARIABLES
    env_api_key,        \* MAP_API_KEY of the environment, stripped
    manual_api_key,     \* the sidebar's text input, stripped
    api_provider,       \* the selected provider (st.session_state.api_provider)
    api_key,            \* the key chosen for the provider, or None
    api_client,         \* st.session_state.api_client
    df,                 \* Some(input table), or <<>> before the upload
    id_col,             \* the identifier column, or None
    pc,                 \* where the script stands
    error_msg,          \* the st.error message of a halted run
    idx,                \* rows the loop has finished
    processed_data,
    processed_count, error_count, skipped_count, rate_limited_count,
    requests_made,
    max_requests,       \* Some(MaxRequests), or <<>> for None
    valid_coords,
    is_valid, coord_status,
    result,             \* what the last reverse_geocode returned
    calls,              \* the requests sent to the provider, in order
    returned,           \* what each of these calls returned, in order
    sleeps,             \* the durations of the time.sleep calls made, in tenths
    remaining_seconds,  \* the countdown display, in tenths of a second
    processed_df,       \* st.session_state.processed_df: Some(report) or <<>>
    response,           \* the HTTP exchange of the last call
    client_log          \* what the last reverse_geocode passed to log_callback

config_vars == <<env_api_key, manual_api_key, api_provider, api_key, api_client>>
input_vars == <<df, id_col>>
count_vars ==
    <<processed_count, error_count, skipped_count, rate_limited_count, requests_made>>
loop_vars ==
    <<idx, processed_data, count_vars, max_requests, valid_coords, is_valid,
      coord_status, result, calls, returned, sleeps, remaining_seconds>>
client_vars == <<response, client_log>>
vars == <<config_vars, input_vars, pc, error_msg, loop_vars, processed_df, client_vars>>

Truthy(s) == s # None /\ s # ""

(***************************************************************************)
(* Sidebar configuration (main.py:107-153)                                 *)
(***************************************************************************)
\* manual_api_key or env_api_key
AvailableKey(manual, env) == IF manual # "" THEN manual ELSE env

\* the provider: the radio's choice with a key, Nominatim without
SelectedProvider(manual, env, choice) ==
    IF AvailableKey(manual, env) # "" THEN choice ELSE Nominatim

\* the key for the chosen provider (main.py:141-144)
SelectedKey(manual, env, provider) ==
    IF provider = Nominatim THEN None
    ELSE IF AvailableKey(manual, env) # "" THEN AvailableKey(manual, env) ELSE None

\* SidebarClient building a client only while the session holds none
SidebarClientCached(provider, key, old_client) ==
    IF old_client = NoClient /\ (Truthy(key) \/ provider = Nominatim)
    THEN get_client(provider, key)
    ELSE old_client

\* the client after the sidebar ran (main.py:149-151)
SidebarClient(provider, key, old_client) ==
    IF Truthy(key) \/ provider = Nominatim THEN get_client(provider, key)
    ELSE old_client

Sidebar(manual, choice) ==
    LET provider == SelectedProvider(manual, env_api_key, choice)
        key == SelectedKey(manual, env_api_key, provider)
    IN  /\ manual_api_key' = manual
        /\ api_provider' = provider
        /\ api_key' = key
        /\ api_client' = SidebarClient(provider, key, api_client)
        /\ UNCHANGED env_api_key

Init ==
    /\ env_api_key \in {"", "env-key"}
    /\ manual_api_key = ""
    /\ api_provider = SelectedProvider("", env_api_key, provider_options[1])
    /\ api_key = SelectedKey("", env_api_key, api_provider)
    /\ api_client = SidebarClient(api_provider, api_key, NoClient)
    /\ df = <<>>
    /\ id_col = None
    /\ pc = "no_file"
    /\ error_msg = ""
    /\ idx = 0
    /\ processed_data = initialize_processed_data
    /\ processed_count = 0
    /\ error_count = 0
    /\ skipped_count = 0
    /\ rate_limited_count = 0
    /\ requests_made = 0
    /\ max_requests = <<>>
    /\ valid_coords = 0
    /\ is_valid = FALSE
    /\ coord_status = ""
    /\ result = Fail
    /\ calls = <<>>
    /\ returned = <<>>
    /\ sleeps = <<>>
    /\ remaining_seconds = 0
    /\ processed_df = <<>>
    /\ response = TimeoutResponse
    /\ client_log = <<>>

\* a rerun of the script after the user changed the key or the provider
\* (explored before the upload: the configuration a run starts from is the same)
Configure ==
    /\ pc = "no_file"
    /\ \E manual \in {"", "manual-key"}, choice \in {LocationIQ, GoogleMaps, Nominatim} :
          Sidebar(manual, choice)
    /\ UNCHANGED <<input_vars, pc, error_msg, loop_vars, processed_df,
                   client_vars>>

\* the user uploads a file and picks the columns (main.py:331-395); long tables
\* are explored without a key, under the free provider the cap applies to
\* with the identifier column "ID"; the tables at the bounds of the ranges
\* without identifier column; an identifier column named like a result column
\* over one-row tables
Upload ==
    /\ pc = "no_file"
    /\ \E table \in ShortTables \cup BoundaryTables \cup LongTables, idc \in IdColumns :
          /\ IsLong(table) =>
                (api_provider = Nominatim /\ AvailableKey(manual_api_key, env_api_key) = ""
                 /\ idc = "ID")
          /\ table \in BoundaryTables \ ShortTables => idc = None
          /\ idc = "State" => Len(table) = 1
          /\ df' = Some(table)
          /\ id_col' = idc
    /\ pc' = "ready"
    /\ UNCHANGED <<config_vars, error_msg, loop_vars, processed_df,
                   client_vars>>

(***************************************************************************)
(* Start Geocoding (main.py:410-491)                                       *)
(***************************************************************************)
Table == df[1]

\* max_requests = 50 if api_provider == Nominatim else None
MaxRequestsFor(provider) == IF provider = Nominatim THEN Some(MaxRequests) ELSE <<>>

\* the button: the script reruns, the sidebar first, then the checks
StartGeocoding ==
    /\ pc = "ready"
    /\ Sidebar(manual_api_key, api_provider)
    /\ IF api_provider' \in {LocationIQ, GoogleMaps} /\ ~Truthy(api_key')
       THEN /\ error_msg' = "Please enter your API key in the sidebar"
            /\ pc' = "halted"
            /\ UNCHANGED loop_vars
       ELSE IF api_client' = NoClient
       THEN /\ error_msg' = "API client not initialized"
            /\ pc' = "halted"
            /\ UNCHANGED loop_vars
       ELSE IF validate_coordinates(Table) = 0
       THEN /\ error_msg' = "No valid coordinates found in selected columns"
            /\ pc' = "halted"
            /\ valid_coords' = 0
            /\ UNCHANGED <<idx, processed_data, count_vars, max_requests, is_valid,
                           coord_status, result, calls, returned, sleeps,
                           remaining_seconds>>
       ELSE /\ valid_coords' = validate_coordinates(Table)
            /\ max_requests' = MaxRequestsFor(api_provider')
            /\ processed_data' = initialize_processed_data
            /\ processed_count' = 0
            /\ error_count' = 0
            /\ skipped_count' = 0
            /\ rate_limited_count' = 0
            /\ requests_made' = 0
            /\ idx' = 0
            /\ pc' = "row"
            /\ UNCHANGED <<error_msg, is_valid, coord_status, result, calls, returned,
                           sleeps, remaining_seconds>>
    /\ UNCHANGED <<input_vars, processed_df,
                   client_vars>>

(***************************************************************************)
(* Main processing loop (main.py:493-599)                                  *)
(***************************************************************************)
\* the row of the current iteration
Row == Table[idx + 1]

\* the quota test with > for >=
QuotaExhaustedLate(limit, made) == limit # <<>> /\ limit[1] # 0 /\ made > limit[1]

\* if max_requests and requests_made >= max_requests
QuotaExhausted(limit, made) == limit # <<>> /\ limit[1] # 0 /\ made >= limit[1]

\* the countdown after finishing a row (main.py:587-591)
RemainingSeconds(done, limit, made, rate_limit) ==
    LET remaining_coords == Len(Table) - done
        remaining_requests == IF limit[1] - made > 0 THEN limit[1] - made ELSE 0
    IN  IF limit # <<>> /\ limit[1] # 0
        THEN (IF remaining_coords < remaining_requests
              THEN remaining_coords ELSE remaining_requests) * rate_limit
        ELSE remaining_coords * rate_limit

\* the end of an iteration: progress and countdown, then the next row
EndIteration ==
    /\ remaining_seconds' =
          RemainingSeconds(idx + 1, max_requests, requests_made', RATE_LIMIT(api_client.cls))
    /\ idx' = idx + 1
    /\ pc' = "row"

\* an iteration over a row that fails validation (main.py:500-517)
SkipRow ==
    /\ pc = "row"
    /\ idx < Len(Table)
    /\ ~validate_coordinate_values(Row.lat, Row.lon)[1]
    /\ is_valid' = validate_coordinate_values(Row.lat, Row.lon)[1]
    /\ coord_status' = validate_coordinate_values(Row.lat, Row.lon)[2]
    /\ processed_data' =
          AppendRecord(processed_data, Row.lat, Row.lon,
                       get_coordinate_error_record(coord_status'))
    /\ skipped_count' = skipped_count + 1
    /\ UNCHANGED <<processed_count, error_count, rate_limited_count, requests_made>>
    /\ EndIteration
    /\ UNCHANGED <<config_vars, input_vars, error_msg, max_requests, valid_coords,
                   result, calls, returned, sleeps, processed_df,
                   client_vars>>

\* DeferRow counting the deferred row among the skipped rows
DeferRowCountedSkipped ==
    /\ pc = "row"
    /\ idx < Len(Table)
    /\ validate_coordinate_values(Row.lat, Row.lon)[1]
    /\ QuotaExhausted(max_requests, requests_made)
    /\ is_valid' = validate_coordinate_values(Row.lat, Row.lon)[1]
    /\ coord_status' = validate_coordinate_values(Row.lat, Row.lon)[2]
    /\ processed_data' =
          AppendRecord(processed_data, Row.lat, Row.lon, get_rate_limit_record)
    /\ skipped_count' = skipped_count + 1
    /\ UNCHANGED <<processed_count, error_count, rate_limited_count, requests_made>>
    /\ EndIteration
    /\ UNCHANGED <<config_vars, input_vars, error_msg, max_requests, valid_coords,
                   result, calls, returned, sleeps, processed_df,
                   client_vars>>

\* an iteration over a valid row once the cap is reached (main.py:519-533)
DeferRow ==
    /\ pc = "row"
    /\ idx < Len(Table)
    /\ validate_coordinate_values(Row.lat, Row.lon)[1]
    /\ QuotaExhausted(max_requests, requests_made)
    /\ is_valid' = validate_coordinate_values(Row.lat, Row.lon)[1]
    /\ coord_status' = validate_coordinate_values(Row.lat, Row.lon)[2]
    /\ processed_data' =
          AppendRecord(processed_data, Row.lat, Row.lon, get_rate_limit_record)
    /\ rate_limited_count' = rate_limited_count + 1
    /\ UNCHANGED <<processed_count, error_count, skipped_count, requests_made>>
    /\ EndIteration
    /\ UNCHANGED <<config_vars, input_vars, error_msg, max_requests, valid_coords,
                   result, calls, returned, sleeps, processed_df,
                   client_vars>>

\* CallProvider not waiting for the sleep after the previous call
CallProviderDuringSleep ==
    /\ pc \in {"row", "sleeping"}
    /\ idx < Len(Table)
    /\ validate_coordinate_values(Row.lat, Row.lon)[1]
    /\ ~QuotaExhausted(max_requests, requests_made)
    /\ is_valid' = validate_coordinate_values(Row.lat, Row.lon)[1]
    /\ coord_status' = validate_coordinate_values(Row.lat, Row.lon)[2]
    /\ calls' = Append(calls, [row |-> idx + 1, cls |-> api_client.cls,
                               api_key |-> api_client.api_key,
                               lat |-> Row.lat, lon |-> Row.lon])
    /\ pc' = "in_call"
    /\ UNCHANGED <<config_vars, input_vars, error_msg, idx, processed_data, count_vars,
                   max_requests, valid_coords, result, returned, sleeps,
                   remaining_seconds, processed_df,
                   client_vars>>

\* a valid row below the cap: reverse_geocode sends the request (main.py:536)
CallProvider ==
    /\ pc = "row"
    /\ idx < Len(Table)
    /\ validate_coordinate_values(Row.lat, Row.lon)[1]
    /\ ~QuotaExhausted(max_requests, requests_made)
    /\ is_valid' = validate_coordinate_values(Row.lat, Row.lon)[1]
    /\ coord_status' = validate_coordinate_values(Row.lat, Row.lon)[2]
    /\ calls' = Append(calls, [row |-> idx + 1, cls |-> api_client.cls,
                               api_key |-> api_client.api_key,
                               lat |-> Row.lat, lon |-> Row.lon])
    /\ pc' = "in_call"
    /\ UNCHANGED <<config_vars, input_vars, error_msg, idx, processed_data, count_vars,
                   max_requests, valid_coords, result, returned, sleeps,
                   remaining_seconds, processed_df,
                   client_vars>>

\* the results explored: any over a short table; over a long table any for the
\* last FreeCalls calls below the cap, the Lagos record for the calls before
Explored(res) ==
    \/ ~IsLong(Table)
    \/ requests_made >= MaxRequests - FreeCalls
    \/ res = Some(RecLagos)

\* ResultRecord where a record without a full address counts as a failure
ResultRecordNeedsAddress(res) ==
    IF res # Fail /\ res[1].address # EmptyText THEN SuccessRecord(res[1])
    ELSE get_error_record

\* the record appended for a result (main.py:538-575)
ResultRecord(res) == IF res # Fail THEN SuccessRecord(res[1]) ELSE get_error_record

\* ProviderReturns where a failed request raises out of reverse_geocode
\* and ends the script
ProviderReturnsRaising ==
    /\ pc = "in_call"
    /\ \E resp \in RunResponses(api_client.cls) :
          LET out == reverse_geocode(api_client.cls, resp)
              res == out.ret
          IN  /\ Explored(res)
              /\ response' = resp
              /\ client_log' = out.logs
              /\ IF out.raised \/ res = Fail
                 THEN /\ pc' = "crashed"
                      /\ UNCHANGED <<result, returned, processed_data, count_vars,
                                     sleeps>>
                 ELSE /\ result' = res
                      /\ returned' = Append(returned, res)
                      /\ processed_data' =
                            AppendRecord(processed_data, Row.lat, Row.lon,
                                         ResultRecord(res))
                      /\ processed_count' = processed_count + 1
                      /\ requests_made' = requests_made + 1
                      /\ sleeps' = Append(sleeps, RATE_LIMIT(api_client.cls))
                      /\ pc' = "sleeping"
                      /\ UNCHANGED <<error_count, skipped_count, rate_limited_count>>
    /\ UNCHANGED <<config_vars, input_vars, error_msg, idx, max_requests, valid_coords,
                   is_valid, coord_status, calls, remaining_seconds, processed_df>>

\* ProviderReturns where only a successful request is followed by the sleep
ProviderReturnsSleepOnSuccess ==
    /\ pc = "in_call"
    /\ \E resp \in RunResponses(api_client.cls) :
          LET out == reverse_geocode(api_client.cls, resp)
              res == out.ret
          IN  /\ Explored(res)
              /\ response' = resp
              /\ client_log' = out.logs
              /\ IF out.raised
                 THEN /\ pc' = "crashed"
                      /\ UNCHANGED <<result, returned, processed_data, count_vars,
                                     sleeps>>
                 ELSE /\ result' = res
                      /\ returned' = Append(returned, res)
                      /\ processed_data' =
                            AppendRecord(processed_data, Row.lat, Row.lon,
                                         ResultRecord(res))
                      /\ processed_count' =
                            IF res # Fail THEN processed_count + 1 ELSE processed_count
                      /\ error_count' =
                            IF res # Fail THEN error_count ELSE error_count + 1
                      /\ requests_made' = requests_made + 1
                      /\ sleeps' = IF res # Fail THEN Append(sleeps, RATE_LIMIT(api_client.cls))
                                     ELSE sleeps
                      /\ pc' = "sleeping"
                      /\ UNCHANGED <<skipped_count, rate_limited_count>>
    /\ UNCHANGED <<config_vars, input_vars, error_msg, idx, max_requests, valid_coords,
                   is_valid, coord_status, calls, remaining_seconds, processed_df>>

\* ProviderReturns where only a successful request counts against the quota
ProviderReturnsCountsSuccesses ==
    /\ pc = "in_call"
    /\ \E resp \in RunResponses(api_client.cls) :
          LET out == reverse_geocode(api_client.cls, resp)
              res == out.ret
          IN  /\ Explored(res)
              /\ response' = resp
              /\ client_log' = out.logs
              /\ IF out.raised
                 THEN /\ pc' = "crashed"
                      /\ UNCHANGED <<result, returned, processed_data, count_vars,
                                     sleeps>>
                 ELSE /\ result' = res
                      /\ returned' = Append(returned, res)
                      /\ processed_data' =
                            AppendRecord(processed_data, Row.lat, Row.lon,
                                         ResultRecord(res))
                      /\ processed_count' =
                            IF res # Fail THEN processed_count + 1 ELSE processed_count
                      /\ error_count' =
                            IF res # Fail THEN error_count ELSE error_count + 1
                      /\ requests_made' =
                            IF res # Fail THEN requests_made + 1 ELSE requests_made
                      /\ sleeps' = Append(sleeps, RATE_LIMIT(api_client.cls))
                      /\ pc' = "sleeping"
                      /\ UNCHANGED <<skipped_count, rate_limited_count>>
    /\ UNCHANGED <<config_vars, input_vars, error_msg, idx, max_requests, valid_coords,
                   is_valid, coord_status, calls, remaining_seconds, processed_df>>

\* reverse_geocode returns; the row is appended and the sleep starts
\* (main.py:536-580); an exception out of reverse_geocode ends the script
ProviderReturns ==
    /\ pc = "in_call"
    /\ \E resp \in RunResponses(api_client.cls) :
          LET out == reverse_geocode(api_client.cls, resp)
              res == out.ret
          IN  /\ Explored(res)
              /\ response' = resp
              /\ client_log' = out.logs
              /\ IF out.raised
                 THEN /\ pc' = "crashed"
                      /\ UNCHANGED <<result, returned, processed_data, count_vars,
                                     sleeps>>
                 ELSE /\ result' = res
                      /\ returned' = Append(returned, res)
                      /\ processed_data' =
                            AppendRecord(processed_data, Row.lat, Row.lon,
                                         ResultRecord(res))
                      /\ processed_count' =
                            IF res # Fail THEN processed_count + 1 ELSE processed_count
                      /\ error_count' =
                            IF res # Fail THEN error_count ELSE error_count + 1
                      /\ requests_made' = requests_made + 1
                      /\ sleeps' = Append(sleeps, RATE_LIMIT(api_client.cls))
                      /\ pc' = "sleeping"
                      /\ UNCHANGED <<skipped_count, rate_limited_count>>
    /\ UNCHANGED <<config_vars, input_vars, error_msg, idx, max_requests, valid_coords,
                   is_valid, coord_status, calls, remaining_seconds, processed_df>>

\* time.sleep(RATE_LIMIT) is over; the iteration ends (main.py:580-599)
SleepDone ==
    /\ pc = "sleeping"
    /\ UNCHANGED <<config_vars, input_vars, error_msg, processed_data, count_vars,
                   max_requests, valid_coords, is_valid, coord_status, result, calls,
                   returned, sleeps, processed_df,
                   client_vars>>
    /\ EndIteration

\* after the loop: the report is built and stored (main.py:605-607);
\* a ValueError of pd.DataFrame ends the script
ProcessingComplete ==
    /\ pc = "row"
    /\ idx = Len(Table)
    /\ LET result_df == prepare_output_dataframe(Table, processed_data, id_col)
       IN  IF result_df # <<>>
           THEN processed_df' = result_df /\ pc' = "done"
           ELSE processed_df' = processed_df /\ pc' = "crashed"
    /\ UNCHANGED <<config_vars, input_vars, error_msg, loop_vars,
                   client_vars>>

Next ==
    \/ Configure
    \/ Upload
    \/ StartGeocoding
    \/ SkipRow
    \/ DeferRow
    \/ CallProvider
    \/ ProviderReturns
    \/ SleepDone
    \/ ProcessingComplete

Spec == Init /\ [][Next]_vars

\* a started run keeps running: the script is sequential and every request
\* ends within its timeout (api_client.py:11, 30)
RunStep ==
    \/ SkipRow
    \/ DeferRow
    \/ CallProvider
    \/ ProviderReturns
    \/ SleepDone
    \/ ProcessingComplete

LiveSpec == Spec /\ WF_vars(RunStep)

(***************************************************************************)
(* Notions the properties are stated with                                  *)
(***************************************************************************)
(***************************************************************************)
(* A batch run the user may interrupt                                      *)
(***************************************************************************)
\* the script run is aborted between two statements of the loop (a rerun of
\* the page, the host process closed); st.session_state is what remains
Interrupt ==
    /\ pc \in {"row", "in_call", "sleeping"}
    /\ pc' = "interrupted"
    /\ UNCHANGED <<config_vars, input_vars, error_msg, loop_vars, processed_df,
                   client_vars>>

InterruptNext == Next \/ Interrupt

InterruptSpec == Init /\ [][InterruptNext]_vars

(***************************************************************************)
(* One client called on its own: every client on every exchange            *)
(***************************************************************************)
ClientInit ==
    /\ env_api_key = "env-key"
    /\ manual_api_key = ""
    /\ api_provider = provider_options[1]
    /\ api_key = "env-key"
    /\ api_client = get_client(api_provider, api_key)
    /\ df = <<>>
    /\ id_col = None
    /\ pc = "client"
    /\ error_msg = ""
    /\ idx = 0
    /\ processed_data = initialize_processed_data
    /\ processed_count = 0
    /\ error_count = 0
    /\ skipped_count = 0
    /\ rate_limited_count = 0
    /\ requests_made = 0
    /\ max_requests = <<>>
    /\ valid_coords = 0
    /\ is_valid = FALSE
    /\ coord_status = ""
    /\ result = Fail
    /\ calls = <<>>
    /\ returned = <<>>
    /\ sleeps = <<>>
    /\ remaining_seconds = 0
    /\ processed_df = <<>>
    /\ response = TimeoutResponse
    /\ client_log = <<>>

\* get_client(provider, key).reverse_geocode(lat, lon, log_callback) over one
\* exchange
ClientCall ==
    /\ pc = "client"
    /\ \E i \in 1..Len(provider_options), resp \in Responses :
          LET out == reverse_geocode(get_client(provider_options[i], api_key).cls, resp)
          IN  /\ api_provider' = provider_options[i]
              /\ api_client' = get_client(provider_options[i], api_key)
              /\ response' = resp
              /\ result' = out.ret
              /\ client_log' = out.logs
              /\ pc' = IF out.raised THEN "raised" ELSE "returned"
    /\ UNCHANGED <<env_api_key, manual_api_key, api_key, input_vars, error_msg, idx,
                   processed_data, count_vars, max_requests, valid_coords, is_valid,
                   coord_status, calls, returned, sleeps, remaining_seconds,
                   processed_df>>

\* the caller's branch on what the client returned: the row of the result
\* or the row of the error is appended and counted (main.py:538-577)
RecordResult ==
    /\ pc = "returned"
    /\ processed_data' =
          AppendRecord(initialize_processed_data, Num(6), Num(6), ResultRecord(result))
    /\ processed_count' = IF result # Fail THEN processed_count + 1 ELSE processed_count
    /\ error_count' = IF result # Fail THEN error_count ELSE error_count + 1
    /\ requests_made' = requests_made + 1
    /\ pc' = "recorded"
    /\ UNCHANGED <<config_vars, input_vars, error_msg, idx, skipped_count,
                   rate_limited_count, max_requests, valid_coords, is_valid,
                   coord_status, result, calls, returned, sleeps, remaining_seconds,
                   processed_df, client_vars>>

ClientNext == ClientCall \/ RecordResult

ClientSpec == ClientInit /\ [][ClientNext]_vars


(***************************************************************************)
(* The success branch on its own: every record a provider may return       *)
(***************************************************************************)
\* the segments the addresses are built from
Segments ==
    {<<"Lagos-Calabar", "Coastal", "Highway">>, <<"LAGOS-CALABAR", "COASTAL", "HIGHWAY">>,
     <<"Dangote", "Refinery">>, <<"Ohoro">>, <<"Ughelli", "North">>, <<"Delta", "State">>,
     <<"Lagos", "State">>, <<"333105">>, <<"Nigeria">>}

PostAddresses ==
    {EmptyText, RecLagos.address, RecDangote.address}
    \cup UNION { {Join(parts) : parts \in [1..n -> Segments]} : n \in 1..MaxSegments }

PostStates ==
    {EmptyText, <<"Delta", "State">>, <<"DELTA", "STATE">>, <<"Lagos", "State">>}

PostRecords ==
    {[RecDangote EXCEPT !.address = a, !.state = st] :
        a \in PostAddresses, st \in PostStates}

PostInit ==
    /\ env_api_key = "env-key"
    /\ manual_api_key = ""
    /\ api_provider = provider_options[1]
    /\ api_key = "env-key"
    /\ api_client = get_client(api_provider, api_key)
    /\ df = <<>>
    /\ id_col = None
    /\ pc = "post"
    /\ error_msg = ""
    /\ idx = 0
    /\ processed_data = initialize_processed_data
    /\ processed_count = 0
    /\ error_count = 0
    /\ skipped_count = 0
    /\ rate_limited_count = 0
    /\ requests_made = 0
    /\ max_requests = <<>>
    /\ valid_coords = 0
    /\ is_valid = FALSE
    /\ coord_status = ""
    /\ result = Fail
    /\ calls = <<>>
    /\ returned = <<>>
    /\ sleeps = <<>>
    /\ remaining_seconds = 0
    /\ processed_df = <<>>
    /\ response = TimeoutResponse
    /\ client_log = <<>>

\* 'if result:' with a record: the row is appended to an empty buffer
\* (main.py:538-556)
SuccessBranch ==
    /\ pc = "post"
    /\ \E r \in PostRecords :
          /\ result' = Some(r)
          /\ processed_data' =
                AppendRecord(initialize_processed_data, Num(6), Num(6), SuccessRecord(r))
    /\ pc' = "appended"
    /\ UNCHANGED <<config_vars, input_vars, error_msg, idx, count_vars, max_requests,
                   valid_coords, is_valid, coord_status, calls, returned, sleeps,
                   remaining_seconds, processed_df, client_vars>>

PostNext == SuccessBranch

PostSpec == PostInit /\ [][PostNext]_vars

Running == pc \in {"row", "in_call", "sleeping"}
Started == pc \in {"row", "in_call", "sleeping", "done"}

\* the rows whose ProcessedRow has been appended
Appended == IF pc = "sleeping" THEN idx + 1 ELSE idx

Report == processed_df[1]
ReportRows == Len(Report.data["Geocoding Status"])

RowValid(i) == validate_coordinate_values(Table[i].lat, Table[i].lon)[1]
RowReason(i) == validate_coordinate_values(Table[i].lat, Table[i].lon)[2]

\* the calls made for input row i, as indices of the call trace
CallsFor(i) == {k \in 1..Len(calls) : calls[k].row = i}

StatusAt(i) == processed_data["Status"][i]

DeferredStatus == "Rate Limit Reached (50/hour cap)"
ValidationStatuses ==
    {"No Coordinates Found", "Incomplete Coordinates", "Invalid Coordinate Range"}

\* the valid rows among the first n rows
ValidUpTo(n) == {j \in 1..n : RowValid(j)}

Min(a, b) == IF a < b THEN a ELSE b
Max(a, b) == IF a > b THEN a ELSE b

(***************************************************************************)
(* C1: every finished row has added exactly one entry to each column of    *)
(* processed_data, whatever its outcome, and the report built at the end   *)
(* has as many rows as the input table.                                    *)
(***************************************************************************)
C1_ReportIsTotal ==
    /\ Running => \A c \in ProcessedColumns : Len(processed_data[c]) = Appended
    /\ pc # "crashed"
    /\ pc = "done" =>
          /\ processed_df # <<>>
          /\ \A c \in DOMAIN Report.data : Len(Report.data[c]) = Len(Table)

\* a finished run whose rows were skipped, deferred, geocoded and failed
C1_Witness ==
    /\ pc = "done"
    /\ ReportRows = Len(Table)
    /\ \A st \in {"Invalid Coordinate Range", DeferredStatus, "Success", "Error"} :
          \E i \in 1..Len(Table) : Report.data["Geocoding Status"][i] = st

(***************************************************************************)
(* C2: row i of the report carries the identifier and the coordinates of   *)
(* input row i, and the status and address fields that processing input    *)
(* row i produced.                                                         *)
(***************************************************************************)
\* the record that processing row i produced, from the row and the call trace
ProducedFor(i) ==
    IF ~RowValid(i) THEN PlaceholderRecord(
           CASE RowReason(i) = "no_coordinates" -> "No Coordinates Found"
             [] RowReason(i) = "incomplete_coordinates" -> "Incomplete Coordinates"
             [] RowReason(i) = "invalid_range" -> "Invalid Coordinate Range")
    ELSE IF CallsFor(i) = {} THEN PlaceholderRecord(DeferredStatus)
    ELSE LET k == CHOOSE k \in CallsFor(i) : TRUE
         IN  IF returned[k] = Fail THEN PlaceholderRecord("Error")
             ELSE SuccessRecord(returned[k][1])

SameNumber(cell, original) ==
    IF NotNull(original) /\ ToFloat(original)[1]
    THEN cell.kind = "num" /\ cell.val = ToFloat(original)[2]
    ELSE cell = Null

C2_OrderPreserved ==
    pc = "done" =>
        \A i \in 1..Len(Table) :
            /\ id_col # None => Report.data[id_col][i] = Table[i].id
            /\ SameNumber(Report.data["Latitude"][i], Table[i].lat)
            /\ SameNumber(Report.data["Longitude"][i], Table[i].lon)
            /\ processed_data["Latitude"][i] = Table[i].lat
            /\ processed_data["Longitude"][i] = Table[i].lon
            /\ Report.data["Geocoding Status"][i] = ProducedFor(i)["Status"]
            /\ \A k \in AddressKeys : Report.data[k][i] = ProducedFor(i)[k]

\* a finished run over two rows with different outcomes and an identifier column
C2_Witness ==
    /\ pc = "done"
    /\ id_col # None
    /\ Len(Table) = 2
    /\ Report.data["Geocoding Status"][1] = "Invalid Coordinate Range"
    /\ Report.data["Geocoding Status"][2] = "Success"
    /\ Report.data["State"][2] = LagosState
    /\ Report.data[id_col] = <<RowId(1), RowId(2)>>

(***************************************************************************)
(* C3: a row that fails validation causes no provider call and gets the    *)
(* status of its validation reason; "Unknown Error" is never recorded.     *)
(***************************************************************************)
C3_InvalidRowsSkipped ==
    Started =>
        /\ \A k \in 1..Len(calls) : RowValid(calls[k].row)
        /\ \A i \in 1..Appended :
              /\ StatusAt(i) # "Unknown Error"
              /\ ~RowValid(i) =>
                    /\ CallsFor(i) = {}
                    /\ RowReason(i) = "no_coordinates" =>
                          StatusAt(i) = "No Coordinates Found"
                    /\ RowReason(i) = "incomplete_coordinates" =>
                          StatusAt(i) = "Incomplete Coordinates"
                    /\ RowReason(i) = "invalid_range" =>
                          StatusAt(i) = "Invalid Coordinate Range"

\* a finished run that skipped an out-of-range row and a row without
\* coordinates, next to no call at all
C3_Witness ==
    /\ pc = "done"
    /\ Len(Table) = 2
    /\ StatusAt(1) = "Invalid Coordinate Range"
    /\ StatusAt(2) = "No Coordinates Found"
    /\ calls = <<>>

(***************************************************************************)
(* C4: under the cap Q of the free provider and V rows that pass           *)
(* validation, min(V, Q) rows end as Success or Error and max(0, V - Q)    *)
(* rows as deferred; the deferred rows are the valid rows after the first  *)
(* Q valid rows, and no call is made for them.                             *)
(***************************************************************************)
RowsWithStatus(statuses) == {i \in 1..Len(Table) : StatusAt(i) \in statuses}

C4_QuotaDeferral ==
    /\ Started => max_requests = IF api_provider = Nominatim THEN <<50>> ELSE <<>>
    /\ (pc = "done" /\ max_requests # <<>>) =>
          LET Q == max_requests[1]
              V == Cardinality(ValidUpTo(Len(Table)))
          IN  /\ Cardinality(RowsWithStatus({"Success", "Error"})) = Min(V, Q)
              /\ Cardinality(RowsWithStatus({DeferredStatus})) = Max(0, V - Q)
              /\ \A i \in 1..Len(Table) :
                    StatusAt(i) = DeferredStatus <=>
                        (RowValid(i) /\ Cardinality(ValidUpTo(i - 1)) >= Q)
              /\ \A i \in RowsWithStatus({DeferredStatus}) : CallsFor(i) = {}
              /\ Len(calls) = Min(V, Q)

\* a finished run of the free provider over 51 valid rows and an invalid row
\* among them: the last valid row is deferred, one of the 50 calls failed
C4_Witness ==
    /\ pc = "done"
    /\ max_requests = <<50>>
    /\ Len(Table) = 52
    /\ ~RowValid(50)
    /\ StatusAt(51) = "Error"
    /\ StatusAt(52) = DeferredStatus
    /\ Len(calls) = 50

(***************************************************************************)
(* C5: for a valid row below the cap the provider is called exactly once;  *)
(* the row is Success exactly if the call returned a record and Error      *)
(* exactly if it returned None; on Success the State and Full Address      *)
(* columns hold the corrected values and the other columns the provider's. *)
(***************************************************************************)
C5_OneCallPerRow ==
    Started =>
        \A i \in 1..Appended :
            /\ StatusAt(i) \in {"Success", "Error"} <=>
                  (RowValid(i) /\ StatusAt(i) # DeferredStatus)
            /\ StatusAt(i) \in {"Success", "Error"} =>
                  /\ Cardinality(CallsFor(i)) = 1
                  /\ LET res == returned[CHOOSE k \in CallsFor(i) : TRUE]
                     IN  /\ StatusAt(i) = "Success" <=> res # Fail
                         /\ StatusAt(i) = "Error" <=> res = Fail
                         /\ res # Fail =>
                               LET fixed == adjust_state_for_known_locations(
                                                res[1].address, res[1].state)
                               IN  /\ processed_data["State"][i] = fixed[1]
                                   /\ processed_data["Full Address"][i] = fixed[2]
                                   /\ processed_data["Street1"][i] = res[1].street1
                                   /\ processed_data["Street2"][i] = res[1].street2
                                   /\ processed_data["City"][i] = res[1].city
                                   /\ processed_data["Postal Code"][i] = res[1].postal
                                   /\ processed_data["Country"][i] = res[1].country

\* a row geocoded with a record the correction rewrites, after a failed row
C5_Witness ==
    /\ Appended = 2
    /\ returned = <<Fail, Some(RecDangote)>>
    /\ StatusAt(1) = "Error"
    /\ StatusAt(2) = "Success"
    /\ processed_data["State"][2] = LagosState
    /\ processed_data["Full Address"][2] # RecDangote.address

(***************************************************************************)
(* C6: a failed row never aborts the batch: whatever the provider returns, *)
(* a started run visits every input row and then produces the report.      *)
(***************************************************************************)
C6_RunCompletes ==
    Running ~> (/\ pc = "done"
                /\ idx = Len(Table)
                /\ processed_df # <<>>
                /\ ReportRows = Len(Table))

\* a finished run in which every call failed
C6_Witness ==
    /\ pc = "done"
    /\ Len(Table) = 2
    /\ returned = <<Fail, Fail>>
    /\ error_count = 2
    /\ ReportRows = 2

(***************************************************************************)
(* C7 as claimed: when no row of the input passes coordinate validation,   *)
(* the run halts before the loop: no row is processed, no call is made,    *)
(* and the error names the missing valid coordinates.                      *)
(***************************************************************************)
NoValidCoordinatesMsg == "No valid coordinates found in selected columns"

NeverStarted ==
    /\ pc \in {"ready", "halted"}
    /\ idx = 0
    /\ processed_data = initialize_processed_data
    /\ calls = <<>>
    /\ pc = "halted" => error_msg = NoValidCoordinatesMsg

C7_Original ==
    (df # <<>> /\ \A i \in 1..Len(Table) : ~RowValid(i)) => NeverStarted

(***************************************************************************)
(* C7 as amended: when no row of the input has both coordinate cells       *)
(* non-null, the run halts before the loop: no row is processed, no call   *)
(* is made, and the error names the missing valid coordinates.  When every *)
(* row fails validation but some row has both cells non-null, the loop     *)
(* runs and skips every row; no call is made then either.                  *)
(***************************************************************************)
C7_HaltsWithoutCoordinatePairs ==
    /\ (df # <<>> /\ \A i \in 1..Len(Table) :
                        ~(NotNull(Table[i].lat) /\ NotNull(Table[i].lon)))
           => NeverStarted
    /\ (df # <<>> /\ \A i \in 1..Len(Table) : ~RowValid(i)) => calls = <<>>
    /\ error_msg = NoValidCoordinatesMsg => pc = "halted"

\* a run halted on a table of two rows without a complete pair
C7_Witness ==
    /\ pc = "halted"
    /\ error_msg = NoValidCoordinatesMsg
    /\ Len(Table) = 2
    /\ ~NotNull(Table[1].lat)
    /\ ~NotNull(Table[2].lon)
    /\ NotNull(Table[2].lat)

(***************************************************************************)
(* C8: a call to LocationIQ or Google Maps is made only with a non-empty   *)
(* key and with the client of the selected provider; without a usable key  *)
(* no run of a paid provider starts and no paid client is ever called.     *)
(***************************************************************************)
PaidProviders == {LocationIQ, GoogleMaps}
PaidClients == {"LocationIQClient", "GoogleMapsClient"}

ClientOf(provider) ==
    CASE provider = LocationIQ -> "LocationIQClient"
      [] provider = GoogleMaps -> "GoogleMapsClient"
      [] provider = Nominatim -> "NominatimClient"

C8_PaidCallsHaveKey ==
    /\ (api_provider \in PaidProviders /\ ~Truthy(api_key)) =>
          (~Started /\ calls = <<>>)
    /\ (manual_api_key = "" /\ env_api_key = "") =>
          \A k \in 1..Len(calls) : calls[k].cls \notin PaidClients
    /\ \A k \in 1..Len(calls) :
          /\ calls[k].cls = ClientOf(api_provider)
          /\ calls[k].cls \in PaidClients =>
                /\ calls[k].api_key \in {"manual-key", "env-key"}
                /\ calls[k].api_key =
                      (IF manual_api_key # "" THEN manual_api_key ELSE env_api_key)

\* a request in flight to Google Maps, selected after the first script run,
\* with the key of the environment
C8_Witness ==
    /\ pc = "in_call"
    /\ api_provider = GoogleMaps
    /\ manual_api_key = ""
    /\ calls[Len(calls)].cls = "GoogleMapsClient"
    /\ calls[Len(calls)].api_key = "env-key"

\* a cell is absent (None, NaN), present but not a number, or a number
Absent(cell) == cell.kind = "null"
Unparsable(cell) == cell.kind = "str" /\ ~ParseFloat(cell.text)[1]
Numeric(cell) == ~Absent(cell) /\ ~Unparsable(cell)

\* the row that is_valid and coord_status are the validation of
LastValidated == IF pc \in {"in_call", "sleeping"} THEN idx + 1 ELSE idx
Validated == Started /\ LastValidated >= 1
LastRow == Table[LastValidated]
Validation == <<is_valid, coord_status>>

(***************************************************************************)
(* C9 as claimed: validation returns (False, no_coordinates) whenever both *)
(* lat and lon are absent or non-numeric (None, NaN, or a value that       *)
(* cannot be parsed as a number).                                          *)
(***************************************************************************)
C9_Original ==
    (Validated /\ ~Numeric(LastRow.lat) /\ ~Numeric(LastRow.lon)) =>
        Validation = <<FALSE, "no_coordinates">>

(***************************************************************************)
(* C9 as amended: validation returns (False, no_coordinates) whenever both *)
(* lat and lon are absent (None, NaN); when neither is a number and one of *)
(* them is a present value that cannot be parsed as a number, it returns   *)
(* (False, invalid_range).                                                 *)
(***************************************************************************)
C9_NoCoordinates ==
    Validated =>
        /\ (Absent(LastRow.lat) /\ Absent(LastRow.lon)) =>
              Validation = <<FALSE, "no_coordinates">>
        /\ (/\ ~Numeric(LastRow.lat)
            /\ ~Numeric(LastRow.lon)
            /\ Unparsable(LastRow.lat) \/ Unparsable(LastRow.lon)) =>
              Validation = <<FALSE, "invalid_range">>
        /\ coord_status = "no_coordinates" =>
              Absent(LastRow.lat) /\ Absent(LastRow.lon)

\* the loop has just validated and skipped a row of two absent coordinates
C9_Witness ==
    /\ pc = "row"
    /\ idx = 2
    /\ Absent(Table[2].lat)
    /\ Absent(Table[2].lon)
    /\ Validation = <<FALSE, "no_coordinates">>
    /\ StatusAt(2) = "No Coordinates Found"

(***************************************************************************)
(* C10 as claimed: validation returns (False, incomplete_coordinates)      *)
(* whenever exactly one of lat and lon is absent or non-numeric and the    *)
(* other is a number, whichever is the missing one; such a row gets all    *)
(* address fields 'Not Available' and no provider call.                    *)
(***************************************************************************)
OneNumber(row) ==
    \/ ~Numeric(row.lat) /\ Numeric(row.lon)
    \/ Numeric(row.lat) /\ ~Numeric(row.lon)

OneAbsent(row) ==
    \/ Absent(row.lat) /\ Numeric(row.lon)
    \/ Numeric(row.lat) /\ Absent(row.lon)

Unavailable(i) ==
    /\ \A k \in AddressKeys : processed_data[k][i] = NotAvailable
    /\ CallsFor(i) = {}

C10_Original ==
    /\ (Validated /\ OneNumber(LastRow)) =>
          Validation = <<FALSE, "incomplete_coordinates">>
    /\ Started =>
          \A i \in 1..Appended : OneNumber(Table[i]) => Unavailable(i)

(***************************************************************************)
(* C10 as amended: validation returns (False, incomplete_coordinates)      *)
(* whenever exactly one of lat and lon is absent (None, NaN) and the other *)
(* is a number, in range or not, whichever is the missing one; when one is *)
(* a present value that cannot be parsed and the other is a number it      *)
(* returns (False, invalid_range).  In both cases the row gets all address *)
(* fields 'Not Available' and no provider call, with the status of the     *)
(* validation result.                                                      *)
(***************************************************************************)
C10_IncompleteCoordinates ==
    /\ Validated =>
          /\ OneAbsent(LastRow) =>
                Validation = <<FALSE, "incomplete_coordinates">>
          /\ (OneNumber(LastRow) /\ ~OneAbsent(LastRow)) =>
                Validation = <<FALSE, "invalid_range">>
          /\ coord_status = "incomplete_coordinates" => OneAbsent(LastRow)
    /\ Started =>
          \A i \in 1..Appended :
              /\ OneAbsent(Table[i]) =>
                    Unavailable(i) /\ StatusAt(i) = "Incomplete Coordinates"
              /\ (OneNumber(Table[i]) /\ ~OneAbsent(Table[i])) =>
                    Unavailable(i) /\ StatusAt(i) = "Invalid Coordinate Range"

\* a finished run that geocoded a row and skipped a row without latitude
C10_Witness ==
    /\ pc = "done"
    /\ Len(Table) = 2
    /\ Absent(Table[2].lat)
    /\ Table[2].lon = Num(6)
    /\ Validation = <<FALSE, "incomplete_coordinates">>
    /\ StatusAt(1) = "Success"
    /\ StatusAt(2) = "Incomplete Coordinates"
    /\ Unavailable(2)
    /\ Len(calls) = 1

(***************************************************************************)
(* C11: when both coordinates are present and numeric, validation returns  *)
(* (True, valid) exactly when -90 <= lat <= 90 and -180 <= lon <= 180,     *)
(* bounds included, and (False, invalid_range) as soon as one of the two   *)
(* is outside its range; an invalid_range row causes no provider call.     *)
(***************************************************************************)
InRange(row) ==
    /\ -90 <= ToFloat(row.lat)[2] /\ ToFloat(row.lat)[2] <= 90
    /\ -180 <= ToFloat(row.lon)[2] /\ ToFloat(row.lon)[2] <= 180

BothNumeric(row) == Numeric(row.lat) /\ Numeric(row.lon)

C11_RangeInclusive ==
    /\ (Validated /\ BothNumeric(LastRow)) =>
          /\ is_valid <=> InRange(LastRow)
          /\ InRange(LastRow) => Validation = <<TRUE, "valid">>
          /\ ~InRange(LastRow) => Validation = <<FALSE, "invalid_range">>
    /\ Started =>
          \A i \in 1..Appended :
              (BothNumeric(Table[i]) /\ ~InRange(Table[i])) =>
                  /\ StatusAt(i) = "Invalid Coordinate Range"
                  /\ CallsFor(i) = {}
    /\ \A k \in 1..Len(calls) :
          BothNumeric(Table[calls[k].row]) /\ InRange(Table[calls[k].row])

\* a finished run over the row (91, 180): the latitude is one degree out,
\* the longitude on its bound; the row was skipped without a call
C11_Witness ==
    /\ pc = "done"
    /\ Len(Table) = 1
    /\ Table[1].lat = Num(91)
    /\ Table[1].lon = Num(180)
    /\ Validation = <<FALSE, "invalid_range">>
    /\ StatusAt(1) = "Invalid Coordinate Range"
    /\ calls = <<>>

\* a request in flight for the row (-90, 180), both coordinates on a bound
C11_BoundWitness ==
    /\ pc = "in_call"
    /\ Table[1].lat = Num(-90)
    /\ Table[1].lon = Num(180)
    /\ Validation = <<TRUE, "valid">>

(***************************************************************************)
(* C12: every provider call, successful or failed, is followed by exactly  *)
(* one sleep of the RATE_LIMIT of the client called, before the next row   *)
(* is touched; a row skipped by validation or deferred by the quota causes *)
(* no sleep.  At every point the number of sleeps equals the number of     *)
(* calls made, and a call is issued only when every earlier call has had   *)
(* its sleep.                                                              *)
(***************************************************************************)
RateOf(cls) ==
    CASE cls = "LocationIQClient" -> 9
      [] cls = "GoogleMapsClient" -> 5
      [] cls = "NominatimClient" -> 10

SleepsMatchCalls ==
    /\ Len(sleeps) = requests_made
    /\ Len(sleeps) = Len(returned)
    /\ Len(calls) = IF pc = "in_call" THEN Len(sleeps) + 1 ELSE Len(sleeps)
    /\ \A k \in 1..Len(sleeps) : sleeps[k] = RateOf(calls[k].cls)

SleepSteps ==
    /\ calls' # calls => (pc = "row" /\ Len(sleeps) = Len(calls))
    /\ (pc = "row" /\ pc' = "row" /\ idx' = idx + 1) => sleeps' = sleeps
    /\ pc = "in_call" => (pc' = "sleeping" /\ Len(sleeps') = Len(sleeps) + 1 /\ idx' = idx)
    /\ pc = "sleeping" => (sleeps' = sleeps /\ calls' = calls)

C12_SleepAfterEachCall == []SleepsMatchCalls /\ [][SleepSteps]_vars

\* the sleep after the failed Google Maps call for the second row, the first
\* row having been skipped without one
C12_Witness ==
    /\ pc = "sleeping"
    /\ idx = 1
    /\ StatusAt(1) = "Invalid Coordinate Range"
    /\ StatusAt(2) = "Error"
    /\ calls[1].cls = "GoogleMapsClient"
    /\ sleeps = <<5>>

\* a Google Maps call has returned over a 200 response with results
GoogleAnswered ==
    /\ pc = "returned"
    /\ api_client.cls = "GoogleMapsClient"
    /\ response.kind = "http"
    /\ response.status = 200
    /\ response.body.shape = "object"
    /\ response.body.results # <<>>

IsPlusCode(r) == "plus_code" \in r.types

FallbackWarning == "Only plus code available, using it as fallback"

Logged(msg) == \E i \in 1..Len(client_log) : client_log[i] = msg

(***************************************************************************)
(* C13: Google Maps candidate selection never returns a plus-code result   *)
(* when the result list holds a result that is not a plus code; only when  *)
(* every result is a plus code does it fall back to results[0], and then   *)
(* it logs the fallback warning.                                           *)
(***************************************************************************)
C13_NoPlusCodeWhenAvoidable ==
    GoogleAnswered =>
        LET results == response.body.results
            others == {i \in 1..Len(results) : ~IsPlusCode(results[i])}
        IN  /\ result # Fail
            /\ others # {} =>
                  /\ \E i \in others : result[1].address = results[i].formatted_address
                  /\ \A i \in 1..Len(results) :
                        IsPlusCode(results[i]) =>
                            result[1].address # results[i].formatted_address
                  /\ ~Logged(FallbackWarning)
            /\ others = {} =>
                  /\ result[1].address = results[1].formatted_address
                  /\ Logged(FallbackWarning)

(***************************************************************************)
(* C14: reverse_geocode of every client returns None, and lets no          *)
(* exception escape, when the HTTP status is not 200, the request times    *)
(* out, the transport fails, the body is malformed JSON, or (Google Maps)  *)
(* the result list is empty.                                               *)
(***************************************************************************)
FailureExchange ==
    \/ response.kind \in {"timeout", "transport"}
    \/ response.kind = "http" /\ response.status # 200
    \/ response.kind = "http" /\ response.body.shape = "malformed"
    \/ /\ api_client.cls = "GoogleMapsClient"
       /\ response.kind = "http"
       /\ response.body.shape = "object"
       /\ response.body.results = <<>>

C14_FailuresReturnNone ==
    /\ pc # "raised"
    /\ (pc = "returned" /\ FailureExchange) => result = Fail
    /\ (pc = "returned" /\ result = Fail) =>
          \/ FailureExchange
          \/ response.body.shape = "non_object"
          \/ ~response.body.address.is_object

\* the Nominatim client has returned None over a 200 response whose body
\* json() rejects with a ValueError
C14_Witness ==
    /\ pc = "returned"
    /\ api_client.cls = "NominatimClient"
    /\ response = Http(200, Malformed("ValueError"))
    /\ result = Fail
    /\ Logged("Exception")

(***************************************************************************)
(* C15: the columns of the report are, in this order, the identifier       *)
(* column (only if one was selected), Latitude, Longitude, Street1,        *)
(* Street2, City, State, Postal Code, Country, Full Address, Geocoding     *)
(* Status; Latitude and Longitude are the original cells parsed as         *)
(* numbers, null where the original is not a number.                       *)
(***************************************************************************)
C15_ReportColumns ==
    pc = "done" =>
        /\ Report.columns =
              (IF id_col # None THEN <<id_col>> ELSE <<>>)
              \o <<"Latitude", "Longitude", "Street1", "Street2", "City", "State",
                   "Postal Code", "Country", "Full Address", "Geocoding Status">>
        /\ DOMAIN Report.data = {Report.columns[k] : k \in 1..Len(Report.columns)}
        /\ \A i \in 1..Len(Table) :
              /\ SameNumber(Report.data["Latitude"][i], Table[i].lat)
              /\ SameNumber(Report.data["Longitude"][i], Table[i].lon)

\* the row the success branch appended, by column
AppendedRow == [k \in RecordKeys |-> processed_data[k][1]]

\* the correction rule as utils.py:638-642 words it
RuleApplies(r) ==
    /\ Contains(Lower(r.address), <<"lagos-calabar", "coastal", "highway">>)
    /\ Contains(Lower(r.address), <<"dangote", "refinery">>)
    /\ Lower(r.state) = <<"delta", "state">>

(***************************************************************************)
(* C16: when the correction rule does not match (fullAddress, state), the  *)
(* post-processor returns both unchanged, and the Success row carries      *)
(* every field exactly as the provider returned it.                        *)
(***************************************************************************)
C16_PassThrough ==
    (pc = "appended" /\ ~RuleApplies(result[1])) =>
        /\ AppendedRow["State"] = result[1].state
        /\ AppendedRow["Full Address"] = result[1].address
        /\ AppendedRow["Street1"] = result[1].street1
        /\ AppendedRow["Street2"] = result[1].street2
        /\ AppendedRow["City"] = result[1].city
        /\ AppendedRow["Postal Code"] = result[1].postal
        /\ AppendedRow["Country"] = result[1].country
        /\ AppendedRow["Status"] = "Success"

\* the address of the rule with the state 'Lagos State': no match, and the
\* row keeps the unwanted segments of the provider's address
C16_Witness ==
    /\ pc = "appended"
    /\ result[1].address = RecDangote.address
    /\ result[1].state = <<"Lagos", "State">>
    /\ AppendedRow["Full Address"] = RecDangote.address
    /\ AppendedRow["State"] = <<"Lagos", "State">>

(***************************************************************************)
(* C18: at most one provider call is in flight at any time; the loop       *)
(* issues the call for a row only after the row before has been appended   *)
(* and its sleep, if any, has finished, and to the one client of the run.  *)
(***************************************************************************)
InFlight == Len(calls) - Len(returned)

OneInFlight ==
    /\ InFlight \in {0, 1}
    /\ InFlight = 1 <=> pc = "in_call"

CallIssued ==
    calls' # calls =>
        /\ Len(calls') = Len(calls) + 1
        /\ InFlight = 0
        /\ pc = "row"
        /\ Len(sleeps) = Len(calls)
        /\ \A c \in ProcessedColumns : Len(processed_data[c]) = idx
        /\ calls'[Len(calls')].row = idx + 1
        /\ \A k \in 1..Len(calls) :
              /\ calls[k].row < idx + 1
              /\ calls[k].cls = calls'[Len(calls')].cls

C18_OneCallInFlight == []OneInFlight /\ [][CallIssued]_vars

\* the second call of a run in flight: the first has returned, its row is
\* appended and its sleep is over
C18_Witness ==
    /\ pc = "in_call"
    /\ Len(calls) = 2
    /\ Len(returned) = 1
    /\ Len(sleeps) = 1
    /\ Len(processed_data["Status"]) = 1

(***************************************************************************)
(* C19: every row of the report whose status is not 'Success' (validation  *)
(* failure, provider Error, deferral) has its seven address fields equal   *)
(* to 'Not Available'.                                                     *)
(***************************************************************************)
C19_PlaceholdersComplete ==
    /\ Started =>
          \A i \in 1..Appended :
              StatusAt(i) # "Success" =>
                  \A k \in AddressKeys : processed_data[k][i] = <<"Not", "Available">>
    /\ pc = "done" =>
          \A i \in 1..Len(Table) :
              Report.data["Geocoding Status"][i] # "Success" =>
                  \A k \in AddressKeys : Report.data[k][i] = <<"Not", "Available">>

\* a report with a failed row and a row without longitude
C19_Witness ==
    /\ pc = "done"
    /\ Len(Table) = 2
    /\ Report.data["Geocoding Status"][1] = "Error"
    /\ Report.data["Geocoding Status"][2] = "Incomplete Coordinates"
    /\ Absent(Table[2].lon)
    /\ \A k \in AddressKeys : Report.data[k] = <<NotAvailable, NotAvailable>>

(***************************************************************************)
(* C20: after each processed row the four counters add up to the rows      *)
(* processed so far and requests_made = processed_count + error_count; at  *)
(* the end of the run each counter is the number of report rows with its   *)
(* status: Success, Error, a validation status, deferred.                  *)
(***************************************************************************)
ReportRowsWith(statuses) ==
    Cardinality({i \in 1..Len(Table) : Report.data["Geocoding Status"][i] \in statuses})

C20_CountersAuthoritative ==
    /\ Started =>
          /\ processed_count + error_count + skipped_count + rate_limited_count
                = Appended
          /\ requests_made = processed_count + error_count
    /\ pc = "done" =>
          /\ processed_count = ReportRowsWith({"Success"})
          /\ error_count = ReportRowsWith({"Error"})
          /\ skipped_count =
                ReportRowsWith({"No Coordinates Found", "Incomplete Coordinates",
                                "Invalid Coordinate Range"})
          /\ rate_limited_count = ReportRowsWith({"Rate Limit Reached (50/hour cap)"})

\* the end of a run under the cap with every counter above zero
C20_Witness ==
    /\ pc = "done"
    /\ processed_count = 49
    /\ error_count = 1
    /\ skipped_count = 1
    /\ rate_limited_count = 1
    /\ requests_made = 50
    /\ Len(Table) = 52

(***************************************************************************)
(* C21: the remaining time shown after each row is the number of rows not  *)
(* yet processed that will trigger a provider call (valid and not          *)
(* deferred) times the rate limit; rows that will be skipped as invalid    *)
(* do not contribute.                                                      *)
(***************************************************************************)
\* the rows after the first n that pass validation
ValidAfter(n) == {j \in (n + 1)..Len(Table) : RowValid(j)}

\* the rows after the first n that will be sent to the provider
EligibleAfter(n) ==
    IF max_requests # <<>>
    THEN Min(Cardinality(ValidAfter(n)), Max(max_requests[1] - requests_made, 0))
    ELSE Cardinality(ValidAfter(n))

C21_RemainingTime ==
    (pc \in {"row", "done"} /\ idx >= 1) =>
        remaining_seconds = EligibleAfter(idx) * RateOf(api_client.cls)

(***************************************************************************)
(* C22: when a batch run is interrupted after k of its n rows were         *)
(* processed, the report available afterwards holds those k rows, and is   *)
(* neither empty nor the report of an earlier run.                         *)
(***************************************************************************)
\* the rows appended when the run was interrupted
RowsProcessed == Len(processed_data["Status"])

C22_PartialReport ==
    (pc = "interrupted" /\ RowsProcessed >= 1) =>
        /\ processed_df # <<>>
        /\ ReportRows = RowsProcessed
        /\ \A i \in 1..RowsProcessed :
              Report.data["Geocoding Status"][i] = processed_data["Status"][i]

(***************************************************************************)
(* C23: among the results of a Google Maps response that are not plus      *)
(* codes, the one selected matches the earliest type of the priority list  *)
(* (street_address, premise, subpremise, route, ...): a street_address     *)
(* result is chosen over a route result wherever the two stand in the      *)
(* list.                                                                   *)
(***************************************************************************)
Ranked(r) == \E k \in 1..Len(preferred_types) : preferred_types[k] \in r.types

\* the place in the priority list of the earliest type of a result
Rank(r) ==
    CHOOSE k \in 1..Len(preferred_types) :
        /\ preferred_types[k] \in r.types
        /\ \A j \in 1..(k - 1) : preferred_types[j] \notin r.types

C23_EarliestPriorityWins ==
    GoogleAnswered =>
        LET results == response.body.results
            candidates == {i \in 1..Len(results) :
                              ~IsPlusCode(results[i]) /\ Ranked(results[i])}
        IN  candidates # {} =>
                \E i \in candidates :
                    /\ result = Some(GoogleRecord(results[i]))
                    /\ \A j \in candidates : Rank(results[i]) <= Rank(results[j])

(***************************************************************************)
(* C24: when the correction matches, the rebuilt full address is the       *)
(* highway segment, the landmark segment, 'Lagos State' and the country,   *)
(* in that order, whatever the order of the segments of the provider's     *)
(* address and also when that address had no 'Delta State' segment.        *)
(***************************************************************************)
RebuiltParts == Split(AppendedRow["Full Address"])

C24_FixedOrder ==
    (pc = "appended" /\ RuleApplies(result[1])) =>
        /\ Len(RebuiltParts) \in {3, 4}
        /\ Contains(Lower(RebuiltParts[1]), <<"lagos-calabar", "coastal", "highway">>)
        /\ Contains(Lower(RebuiltParts[2]), <<"dangote", "refinery">>)
        /\ RebuiltParts[3] = <<"Lagos", "State">>
        /\ Len(RebuiltParts) = 4 => Contains(Lower(RebuiltParts[4]), <<"nigeria">>)

(***************************************************************************)
(* C25: the Nominatim client sets city to address.city and falls back to   *)
(* address.county whenever the response gives no usable city (key absent   *)
(* or value empty); state, postcode and country are copied, and every      *)
(* field the provider omits is the empty string.                           *)
(***************************************************************************)
NominatimAnswered ==
    /\ pc = "returned"
    /\ api_client.cls = "NominatimClient"
    /\ response.kind = "http"
    /\ response.status = 200
    /\ response.body.shape = "object"
    /\ response.body.address.is_object

\* the value of a key of the 'address' object of the response, '' if omitted
Given(k) ==
    IF k \in response.body.address.keys THEN response.body.address.val[k] ELSE EmptyText

DirectFields ==
    /\ result # Fail
    /\ result[1].street1 = Given("road")
    /\ result[1].street2 = Given("suburb")
    /\ result[1].state = Given("state")
    /\ result[1].postal = Given("postcode")
    /\ result[1].country = Given("country")
    /\ result[1].address = response.body.display_name

C25_CountyWhenNoUsableCity ==
    NominatimAnswered =>
        /\ DirectFields
        /\ result[1].city =
              IF Given("city") # EmptyText THEN Given("city") ELSE Given("county")

\* C25 as the code has it: the county stands in only where the key 'city' is
\* absent; a city that is present and empty stays empty
C25_CountyWhenCityAbsent ==
    NominatimAnswered =>
        /\ DirectFields
        /\ result[1].city =
              IF "city" \in response.body.address.keys THEN Given("city")
              ELSE Given("county")

\* an address without the key 'city' and with a county: the county is the city,
\* and the fields the response omits are empty
C25_Witness ==
    /\ NominatimAnswered
    /\ "city" \notin response.body.address.keys
    /\ Given("county") = <<"Ikeja">>
    /\ result[1].city = <<"Ikeja">>
    /\ result[1].state = <<"Lagos", "State">>
    /\ result[1].street1 = EmptyText
    /\ result[1].country = EmptyText

(***************************************************************************)
(* C26: the quota counts provider calls, not successes, and deferral is    *)
(* permanent within a run: requests_made grows by one with every call that *)
(* returns, failed ones included; it never exceeds the quota; and once a   *)
(* row has been deferred no later row of the run triggers a call, every    *)
(* later valid row being deferred too.                                     *)
(***************************************************************************)
QuotaRespected ==
    Started =>
        /\ requests_made = Len(returned)
        /\ max_requests # <<>> => requests_made <= max_requests[1]
        /\ \A i \in 1..Appended : \A j \in (i + 1)..Appended :
              (StatusAt(i) = DeferredStatus /\ RowValid(j)) =>
                  StatusAt(j) = DeferredStatus

CountedCalls ==
    /\ returned' # returned =>
          (Len(returned') = Len(returned) + 1 /\ requests_made' = requests_made + 1)
    /\ (Started /\ returned' = returned) => requests_made' = requests_made
    /\ (Started /\ rate_limited_count > 0) => calls' = calls

C26_QuotaCountsCalls == []QuotaRespected /\ [][CountedCalls]_vars

\* the fiftieth call of a run of the free provider has failed and been
\* counted; the two valid rows after it are deferred without a call
C26_Witness ==
    /\ pc = "done"
    /\ max_requests = <<50>>
    /\ requests_made = 50
    /\ Len(Table) = 52
    /\ StatusAt(50) = "Error"
    /\ RowValid(51) /\ StatusAt(51) = DeferredStatus
    /\ RowValid(52) /\ StatusAt(52) = DeferredStatus
    /\ Len(calls) = 50

(***************************************************************************)
(* C27: the count taken before the run (rows whose two coordinate cells    *)
(* are non-null) is never smaller than the number of rows the validator of *)
(* the loop accepts, so a halt on a zero count never suppresses a run in   *)
(* which some row would have been geocoded; the count may be larger than   *)
(* the number of accepted rows.                                            *)
(***************************************************************************)
AcceptedRows == {i \in 1..Len(Table) : RowValid(i)}

C27_CountCoversAcceptedRows ==
    /\ df # <<>> => validate_coordinates(Table) >= Cardinality(AcceptedRows)
    /\ Started => valid_coords >= Cardinality(AcceptedRows)
    /\ (pc = "halted" /\ error_msg = NoValidCoordinatesMsg) => AcceptedRows = {}

\* a finished run whose count was 2 although the validator accepted one row:
\* the other row has two non-null cells out of range and was skipped
C27_Witness ==
    /\ pc = "done"
    /\ valid_coords = 2
    /\ Cardinality(AcceptedRows) = 1
    /\ skipped_count = 1
    /\ processed_count = 1

(***************************************************************************)
(* C28: for LocationIQ and Nominatim every HTTP 200 response whose body is *)
(* a JSON object yields a record, also when the body carries no address    *)
(* data at all, and the loop records the row as 'Success' with empty       *)
(* address fields, never as 'Error'; only Google Maps turns a 200 response *)
(* without results into Fail.                                              *)
(***************************************************************************)
Answered ==
    /\ pc \in {"returned", "recorded"}
    /\ response.kind = "http"
    /\ response.status = 200
    /\ response.body.shape = "object"

KeylessClient == api_client.cls \in {"LocationIQClient", "NominatimClient"}

NoAddressData ==
    /\ response.body.address.keys = {}
    /\ response.body.display_name = EmptyText

RecordedRow == [k \in RecordKeys |-> processed_data[k][1]]

EmptySuccessRow ==
    /\ RecordedRow["Status"] = "Success"
    /\ \A k \in AddressKeys : RecordedRow[k] = EmptyText

C28_ObjectBodyIsSuccess ==
    /\ (Answered /\ KeylessClient) =>
          /\ result # Fail
          /\ pc = "recorded" => RecordedRow["Status"] = "Success"
          /\ (pc = "recorded" /\ NoAddressData) => EmptySuccessRow
    /\ (Answered /\ api_client.cls = "GoogleMapsClient"
           /\ response.body.results = <<>>) =>
          /\ result = Fail
          /\ pc = "recorded" => RecordedRow["Status"] = "Error"

\* C28 as the code has it: the record is built when the value of 'address' is
\* absent or an object; any other value of 'address' makes the client return
\* Fail, and the row is an 'Error'
C28_ObjectAddressIsSuccess ==
    /\ (Answered /\ KeylessClient /\ response.body.address.is_object) =>
          /\ result # Fail
          /\ pc = "recorded" => RecordedRow["Status"] = "Success"
          /\ (pc = "recorded" /\ NoAddressData) => EmptySuccessRow
    /\ (Answered /\ KeylessClient /\ ~response.body.address.is_object) =>
          /\ result = Fail
          /\ pc = "recorded" => RecordedRow["Status"] = "Error"
    /\ (Answered /\ api_client.cls = "GoogleMapsClient"
           /\ response.body.results = <<>>) =>
          /\ result = Fail
          /\ pc = "recorded" => RecordedRow["Status"] = "Error"

\* the row of a LocationIQ call answered by 200 with an object without address
\* data: 'Success' and seven empty fields
C28_Witness ==
    /\ pc = "recorded"
    /\ Answered
    /\ api_client.cls = "LocationIQClient"
    /\ response.body.address = EmptyDict
    /\ NoAddressData
    /\ EmptySuccessRow
    /\ processed_count = 1

(***************************************************************************)
(* C29: the post-processor is idempotent: applied to its own output, the   *)
(* pair (state, full address) of the appended row, it returns that output  *)
(* unchanged, because a corrected result has the state 'Lagos State' and   *)
(* no longer matches the rule.                                             *)
(***************************************************************************)
Corrected == <<AppendedRow["State"], AppendedRow["Full Address"]>>

C29_Idempotent ==
    pc = "appended" =>
        /\ adjust_state_for_known_locations(Corrected[2], Corrected[1]) = Corrected
        /\ ~RuleApplies([address |-> Corrected[2], state |-> Corrected[1]])

\* a corrected row: the address was rewritten, and a second application
\* leaves the corrected pair as it is
C29_Witness ==
    /\ pc = "appended"
    /\ result[1].address = RecDangote.address
    /\ result[1].state = <<"DELTA", "STATE">>
    /\ Corrected = <<<<"Lagos", "State">>,
                     <<"Lagos-Calabar", "Coastal", "Highway", ",", "Dangote", "Refinery",
                       ",", "Lagos", "State", ",", "Nigeria">>>>
    /\ adjust_state_for_known_locations(Corrected[2], Corrected[1]) = Corrected

(***************************************************************************)
(* C30: whenever the correction is applied the returned state is 'Lagos    *)
(* State', the returned address is non-empty, and no segment of it equals  *)
(* 'delta state' (whatever the case), is purely numeric, or equals one of  *)
(* ohoro, ughelli north, ughelli; the correction is applied only when the  *)
(* address contains both phrases and the state equals 'delta state', all   *)
(* case-insensitively.                                                     *)
(***************************************************************************)
Provided == <<result[1].state, result[1].address>>

CleanSegment(part) ==
    /\ Lower(part) # <<"delta", "state">>
    /\ ~(Len(part) = 1 /\ part[1] \in {"1", "333105", "100001"})
    /\ Lower(part) \notin {<<"ohoro">>, <<"ughelli", "north">>, <<"ughelli">>}

C30_CorrectionIsClean ==
    pc = "appended" =>
        /\ RuleApplies(result[1]) =>
              /\ Corrected[1] = <<"Lagos", "State">>
              /\ Corrected[2] # EmptyText
              /\ \A k \in 1..Len(Split(Corrected[2])) :
                    CleanSegment(Split(Corrected[2])[k])
        /\ Corrected # Provided => RuleApplies(result[1])

\* the correction applied to an address in capitals with a postcode and an
\* unwanted location: both are gone from the returned address
C30_Witness ==
    /\ pc = "appended"
    /\ result[1].state = <<"DELTA", "STATE">>
    /\ result[1].address =
          <<"LAGOS-CALABAR", "COASTAL", "HIGHWAY", ",", "Dangote", "Refinery", ",",
            "333105">>
    /\ Corrected = <<<<"Lagos", "State">>,
                     <<"LAGOS-CALABAR", "COASTAL", "HIGHWAY", ",", "Dangote",
                       "Refinery">>>>

====
